---- MODULE Spec2Model ----
(***************************************************************************)
(* A model of the prompt-review action: the retrying request client        *)
(* (src/src/api-client.ts), the markdown report renderer                   *)
(* (src/src/output-formatter.ts) and the run that ties them to the pull    *)
(* request (src/src/index.ts).                                             *)
(*                                                                         *)
(* Strings are TLA+ strings, built with \o and inspected with Len and      *)
(* SubSeq, so that includes(), substring() and the template literals of    *)
(* the source are computed and not assumed.  TLA+ string literals cannot   *)
(* hold a backquote or a non-ASCII character: BT stands for the backquote  *)
(* and the emoji and the dash of the source texts are written in ASCII.    *)
(***************************************************************************)
EXTENDS Integers, Sequences, FiniteSets, TLC

VARIABLES
    pc,         \* callReviewAPI: "loop" | "fetching" | "json4xx" | "json2xx" | "sleeping" | "returned" | "thrown"
    attempt,    \* the loop counter of callReviewAPI
    lastError,  \* the lastError accumulator (NoError is null)
    resp,       \* the response whose body is being read
    returned,   \* the value callReviewAPI returned
    thrown,     \* the error callReviewAPI threw
    posts,      \* number of fetch() calls issued
    sleeps,     \* the delays of the backoff sleeps begun, in order
    warnings,   \* the core.warning lines emitted, in order
    timers,     \* attempts whose abort timer is armed and neither cleared nor fired
    outcomes,   \* what the network delivered to each attempt, in order
    insights,   \* formatPRVerdict: the factorInsights argument
    verdict,    \* formatPRVerdict: the returned string
    vpc,        \* "input" | "done"
    code,       \* a finding's code (codeSnippet.code or rewrittenCode)
    block,      \* the code block rendered for it
    bpc,        \* "input" | "snippet" | "rewrite" | "inline" | "header"
    comps,      \* formatPRComment: the comparisons argument
    comment,    \* formatPRComment: the returned string
    cpc,        \* "input" | "done", or "factors" | "table" for the evaluation table
    rpc,        \* run(): "ready" | "calling" | "listing" | "writing" | "reviewing" | "summarising" | "done" | "failed"
    mode,       \* "pr" | "on-demand"
    answer,     \* the apiResponse callReviewAPI returned to the run
    apiCalls,   \* number of callReviewAPI invocations of the run
    existing,   \* postOrUpdatePRComment: id of the comment found (0 if none)
    prComments, \* the comments on the pull request, in order: [id, body]
    written,    \* what the run has written: [comment, review, summary]
    failure,    \* the message given to core.setFailed ("" if none)
    runs,       \* number of runs begun
    jobs        \* overlapping runs on one pull request: [pc, existing, body] of each

clientVars == <<pc, attempt, lastError, resp, returned, thrown, posts, sleeps,
                warnings, timers, outcomes>>
verdictVars == <<insights, verdict, vpc>>
blockVars == <<code, block, bpc>>
commentVars == <<comps, comment, cpc>>
runVars == <<rpc, mode, answer, apiCalls, existing, prComments, written, failure, runs>>
jobVars == <<jobs>>
vars == <<clientVars, verdictVars, blockVars, commentVars, runVars, jobVars>>

----------------------------------------------------------------------------
(* String helpers: the JavaScript string methods the source uses.          *)

\* String.prototype.includes
Includes(s, sub) ==
    \E i \in 1..(Len(s) - Len(sub) + 1) : SubSeq(s, i, i + Len(sub) - 1) = sub

\* String.prototype.endsWith
EndsWith(s, suffix) ==
    /\ Len(s) >= Len(suffix)
    /\ SubSeq(s, Len(s) - Len(suffix) + 1, Len(s)) = suffix

\* String.prototype.startsWith
StartsWith(s, prefix) ==
    /\ Len(s) >= Len(prefix)
    /\ SubSeq(s, 1, Len(prefix)) = prefix

\* String.prototype.substring(0, n)
Substring0(s, n) == SubSeq(s, 1, IF n < Len(s) THEN n ELSE Len(s))

\* String.prototype.repeat
RECURSIVE Repeat(_, _)
Repeat(s, n) ==
    IF n <= 0 THEN ""
    ELSE LET h == Repeat(s, n \div 2)
         IN  h \o h \o (IF n % 2 = 1 THEN s ELSE "")

\* Array.prototype.join
RECURSIVE Join(_, _)
Join(parts, sep) ==
    IF Len(parts) = 0 THEN ""
    ELSE IF Len(parts) = 1 THEN parts[1]
    ELSE parts[1] \o sep \o Join(Tail(parts), sep)

----------------------------------------------------------------------------
(* The request client: src/src/api-client.ts                               *)

MAX_RETRIES == 3
\* A slip: a constant backoff instead of a doubling one.
BACKOFF_DELAYS_MS_Constant == <<5000, 5000, 5000>>
BACKOFF_DELAYS_MS == <<5000, 10000, 20000>>

\* A thrown value: kind is its class, name its .name, message its .message
\* (for a value that is no Error, message holds String(value)).
Err(kind, name, message) == [kind |-> kind, name |-> name, message |-> message]
NoError == Err("none", "", "")
IsError(e) == e.kind \in {"Error", "TypeError", "SyntaxError", "DOMException"}

\* A response body as the server sent it.
Body(kind, hasMessage, message, text) ==
    [kind |-> kind, hasMessage |-> hasMessage, message |-> message, text |-> text]
NoBody == Body("none", FALSE, "", "")
Response(status, body) == [status |-> status, body |-> body]
NoResponse == Response(0, NoBody)

\* What one attempt received: a response, or a rejection of fetch().
Outcome(type, response, error) == [type |-> type, response |-> response, error |-> error]

\* Line 80: error instanceof Error ? error : new Error(String(error))
WrapError(error) ==
    IF IsError(error) THEN error ELSE Err("Error", "Error", error.message)

\* A slip: every Error is taken to be retryable.
isRetryableError_AnyError(error) == IsError(error)
\* Lines 99-112
isRetryableError(error) ==
    IF error.kind = "DOMException" /\ error.name = "AbortError" THEN TRUE
    ELSE IF error.kind = "TypeError" /\ Includes(error.message, "fetch") THEN TRUE
    ELSE IF IsError(error) THEN
        \/ Includes(error.message, "ECONNRESET")
        \/ Includes(error.message, "ETIMEDOUT")
        \/ Includes(error.message, "socket hang up")
        \/ Includes(error.message, "network")
        \/ error.name = "AbortError"
    ELSE FALSE

\* Lines 69 and 86: the text given to core.warning
WarningText(att, message, delay) ==
    "API call failed (attempt " \o ToString(att + 1) \o "/" \o ToString(MAX_RETRIES)
        \o "): " \o message \o ". Retrying in " \o ToString(delay \div 1000) \o "s..."

\* response.json(): the parsed body, or the rejection of the runtime (V8's
\* SyntaxError quotes the first ten characters of the text; an interrupted
\* body stream rejects with TypeError "terminated").
JsonResult(body) ==
    CASE body.kind \in {"object", "null"} -> [ok |-> TRUE, data |-> body, error |-> NoError]
      [] body.kind = "text" ->
            [ok |-> FALSE, data |-> NoBody,
             error |-> Err("SyntaxError", "SyntaxError",
                           "Unexpected token '" \o Substring0(body.text, 1) \o "', \""
                               \o Substring0(body.text, 10)
                               \o (IF Len(body.text) > 10 THEN "\"... " ELSE "\" ")
                               \o "is not valid JSON")]
      [] OTHER -> [ok |-> FALSE, data |-> NoBody,
                   error |-> Err("TypeError", "TypeError", "terminated")]

\* Lines 60-61: the value thrown for a 4xx response.  response.json() rejections
\* are replaced by {}; reading .message of a null body is a TypeError.
Error4xx(response) ==
    LET parsed == JsonResult(response.body)
        data == IF parsed.ok THEN parsed.data ELSE Body("object", FALSE, "", "")
    IN  IF data.kind = "null"
        THEN Err("TypeError", "TypeError", "Cannot read properties of null (reading 'message')")
        ELSE IF data.hasMessage /\ data.message # ""
        THEN Err("Error", "Error", data.message)
        ELSE Err("Error", "Error", "API error: " \o ToString(response.status))

\* Line 66
Error5xx(response) == Err("Error", "Error", "API returned " \o ToString(response.status))

\* A slip: the catch block sleeps the first delay whatever the attempt.
CatchBlock_FlatDelay(error) ==
    /\ timers' = timers \ {attempt}
    /\ lastError' = WrapError(error)
    /\ IF isRetryableError(error) /\ attempt < MAX_RETRIES - 1
       THEN LET delay == BACKOFF_DELAYS_MS[1]
            IN  /\ warnings' = Append(warnings, WarningText(attempt, WrapError(error).message, delay))
                /\ sleeps' = Append(sleeps, delay)
                /\ pc' = "sleeping"
                /\ UNCHANGED thrown
       ELSE /\ thrown' = WrapError(error)
            /\ pc' = "thrown"
            /\ UNCHANGED <<warnings, sleeps>>
\* A slip: the catch block does not clear the timer (line 79 is missing).
CatchBlock_NoClear(error) ==
    /\ UNCHANGED timers
    /\ lastError' = WrapError(error)
    /\ IF isRetryableError(error) /\ attempt < MAX_RETRIES - 1
       THEN LET delay == BACKOFF_DELAYS_MS[attempt + 1]
            IN  /\ warnings' = Append(warnings, WarningText(attempt, WrapError(error).message, delay))
                /\ sleeps' = Append(sleeps, delay)
                /\ pc' = "sleeping"
                /\ UNCHANGED thrown
       ELSE /\ thrown' = WrapError(error)
            /\ pc' = "thrown"
            /\ UNCHANGED <<warnings, sleeps>>
\* A slip: the first recorded error is kept and thrown, not the last.
CatchBlock_KeepFirst(error) ==
    LET kept == IF lastError # NoError THEN lastError ELSE WrapError(error)
    IN  /\ timers' = timers \ {attempt}
        /\ lastError' = kept
        /\ IF isRetryableError(error) /\ attempt < MAX_RETRIES - 1
           THEN LET delay == BACKOFF_DELAYS_MS[attempt + 1]
                IN  /\ warnings' = Append(warnings, WarningText(attempt, kept.message, delay))
                    /\ sleeps' = Append(sleeps, delay)
                    /\ pc' = "sleeping"
                    /\ UNCHANGED thrown
           ELSE /\ thrown' = kept
                /\ pc' = "thrown"
                /\ UNCHANGED <<warnings, sleeps>>
\* Lines 78-93: the catch block, entered with the value thrown in the try block.
CatchBlock(error) ==
    /\ timers' = timers \ {attempt}
    /\ lastError' = WrapError(error)
    /\ IF isRetryableError(error) /\ attempt < MAX_RETRIES - 1
       THEN LET delay == BACKOFF_DELAYS_MS[attempt + 1]
            IN  /\ warnings' = Append(warnings, WarningText(attempt, WrapError(error).message, delay))
                /\ sleeps' = Append(sleeps, delay)
                /\ pc' = "sleeping"
                /\ UNCHANGED thrown
       ELSE /\ thrown' = WrapError(error)
            /\ pc' = "thrown"
            /\ UNCHANGED <<warnings, sleeps>>

\* The statuses and bodies the server is taken to answer with, and the values
\* fetch() is taken to reject with.
Statuses == {200, 304, 400, 404, 499, 500, 503, 599}
Bodies ==
    { Body("object", FALSE, "", ""),
      Body("object", TRUE, "", ""),
      Body("object", TRUE, "Invalid API key", ""),
      Body("object", TRUE, "Upstream network unreachable", ""),
      Body("null", FALSE, "", ""),
      Body("text", FALSE, "", "<html>Bad Gateway</html>"),
      Body("text", FALSE, "", "network error"),
      Body("broken", FALSE, "", ""),
      Body("stalled", FALSE, "", "") }
\* The body of a 5xx response is never read: one body stands for all.
Responses ==
    { Response(s, b) : s \in {t \in Statuses : t < 500}, b \in Bodies }
        \cup { Response(s, Body("text", FALSE, "", "<html>Bad Gateway</html>")) :
                    s \in {t \in Statuses : t >= 500} }
FetchErrors ==
    { Err("TypeError", "TypeError", "fetch failed"),
      Err("TypeError", "TypeError", "Failed to parse URL from api_url"),
      Err("Error", "Error", "read ECONNRESET"),
      Err("Error", "Error", "connect ETIMEDOUT 10.0.0.1:443"),
      Err("Error", "Error", "socket hang up"),
      Err("Error", "Error", "network timeout at: api_url"),
      Err("Error", "AbortError", "The user aborted a request."),
      Err("Error", "Error", "getaddrinfo ENOTFOUND api.example.com") }
\* Line 46: controller.abort() rejects the pending fetch with this value.
AbortError == Err("DOMException", "AbortError", "This operation was aborted")

IdleVerdict == insights = <<>> /\ verdict = "" /\ vpc = "idle"
IdleBlock == code = "" /\ block = "" /\ bpc = "idle"
IdleComment == comps = <<>> /\ comment = "" /\ cpc = "idle"

\* An apiResponse: hasResults tells whether the results field is present, and
\* hasMessage whether the message field is.
Answer(status, hasResults, results, hasMessage, message) ==
    [status |-> status, hasResults |-> hasResults, results |-> results,
     hasMessage |-> hasMessage, message |-> message]
NoAnswer == Answer("", FALSE, <<>>, FALSE, "")
NothingWritten == [comment |-> "none", review |-> "none", summary |-> FALSE]
\* No overlapping runs are modelled.
IdleJobs == jobs = <<>>

IdleRun ==
    /\ rpc = "idle"
    /\ mode = ""
    /\ answer = NoAnswer
    /\ apiCalls = 0
    /\ existing = 0
    /\ prComments = <<>>
    /\ written = NothingWritten
    /\ failure = ""
    /\ runs = 0

\* Line 42: the state on entry to callReviewAPI.
ClientInit ==
    /\ pc = "loop"
    /\ attempt = 0
    /\ lastError = NoError
    /\ resp = NoResponse
    /\ returned = NoBody
    /\ thrown = NoError
    /\ posts = 0
    /\ sleeps = <<>>
    /\ warnings = <<>>
    /\ timers = {}
    /\ outcomes = <<>>

\* Lines 44-54 and 96: the loop test; an attempt arms its timer and issues the
\* POST, and the loop's exit throws lastError or the generic error.
LoopHead ==
    /\ pc = "loop"
    /\ IF attempt < MAX_RETRIES
       THEN /\ timers' = timers \cup {attempt}
            /\ posts' = posts + 1
            /\ pc' = "fetching"
            /\ UNCHANGED thrown
       ELSE /\ thrown' = IF lastError # NoError THEN lastError
                         ELSE Err("Error", "Error", "All retry attempts exhausted")
            /\ pc' = "thrown"
            /\ UNCHANGED <<timers, posts>>
    /\ UNCHANGED <<attempt, lastError, resp, returned, sleeps, warnings, outcomes>>

\* Lines 49-74: fetch() resolves with a response.
FetchResponds(r) ==
    /\ pc = "fetching"
    /\ outcomes' = Append(outcomes, Outcome("response", r, NoError))
    /\ IF r.status >= 400 /\ r.status < 500
       THEN /\ timers' = timers \ {attempt}
            /\ resp' = r
            /\ pc' = "json4xx"
            /\ UNCHANGED <<lastError, thrown, warnings, sleeps>>
       ELSE IF r.status >= 500
       THEN /\ UNCHANGED resp
            /\ IF attempt < MAX_RETRIES - 1
               THEN LET delay == BACKOFF_DELAYS_MS[attempt + 1]
                    IN  /\ timers' = timers \ {attempt}
                        /\ lastError' = Error5xx(r)
                        /\ warnings' = Append(warnings,
                                              WarningText(attempt, Error5xx(r).message, delay))
                        /\ sleeps' = Append(sleeps, delay)
                        /\ pc' = "sleeping"
                        /\ UNCHANGED thrown
               ELSE CatchBlock(Error5xx(r))
       ELSE /\ timers' = timers \ {attempt}
            /\ resp' = r
            /\ pc' = "json2xx"
            /\ UNCHANGED <<lastError, thrown, warnings, sleeps>>
    /\ UNCHANGED <<attempt, returned, posts>>

\* Lines 60-61: the body of a 4xx response has been read (or has failed to be).
\* The timer was cleared on line 56 and nothing else ends the read: a body
\* that stalls ("stalled") leaves response.json() pending.
Json4xxSettles ==
    /\ pc = "json4xx"
    /\ resp.body.kind # "stalled"
    /\ CatchBlock(Error4xx(resp))
    /\ resp' = NoResponse
    /\ UNCHANGED <<attempt, returned, posts, outcomes>>

\* A slip: the parsed body is not returned and the loop goes on.
Json2xxSettles_NoReturn ==
    /\ pc = "json2xx"
    /\ pc' = "sleeping"
    /\ resp' = NoResponse
    /\ UNCHANGED <<attempt, lastError, returned, thrown, posts, sleeps, warnings, timers, outcomes>>
\* Lines 76-77: the body of a 2xx/3xx response has been read (or has failed to be).
Json2xxSettles ==
    /\ pc = "json2xx"
    /\ resp.body.kind # "stalled"
    /\ LET parsed == JsonResult(resp.body)
       IN  IF parsed.ok
           THEN /\ returned' = parsed.data
                /\ pc' = "returned"
                /\ UNCHANGED <<lastError, thrown, warnings, sleeps, timers>>
           ELSE /\ CatchBlock(parsed.error)
                /\ UNCHANGED returned
    /\ resp' = NoResponse
    /\ UNCHANGED <<attempt, posts, outcomes>>

\* Lines 49 and 78: fetch() rejects.
FetchRejects(e) ==
    /\ pc = "fetching"
    /\ outcomes' = Append(outcomes, Outcome("exception", NoResponse, e))
    /\ CatchBlock(e)
    /\ UNCHANGED <<attempt, resp, returned, posts>>

\* Line 46: the abort timer fires while fetch() is pending.
TimerFires ==
    /\ pc = "fetching"
    /\ attempt \in timers
    /\ outcomes' = Append(outcomes, Outcome("exception", NoResponse, AbortError))
    /\ CatchBlock(AbortError)
    /\ UNCHANGED <<attempt, resp, returned, posts>>

\* Lines 70-71 and 87-88: sleep(delay) resolves; continue.
BackoffElapses ==
    /\ pc = "sleeping"
    /\ attempt' = attempt + 1
    /\ pc' = "loop"
    /\ UNCHANGED <<lastError, resp, returned, thrown, posts, sleeps, warnings, timers, outcomes>>

Init == ClientInit /\ IdleVerdict /\ IdleBlock /\ IdleComment /\ IdleRun /\ IdleJobs

Next ==
    \/ LoopHead /\ UNCHANGED <<verdictVars, blockVars, commentVars, runVars, jobVars>>
    \/ (\E r \in Responses : FetchResponds(r)) /\ UNCHANGED <<verdictVars, blockVars, commentVars, runVars, jobVars>>
    \/ Json4xxSettles /\ UNCHANGED <<verdictVars, blockVars, commentVars, runVars, jobVars>>
    \/ Json2xxSettles /\ UNCHANGED <<verdictVars, blockVars, commentVars, runVars, jobVars>>
    \/ (\E e \in FetchErrors : FetchRejects(e)) /\ UNCHANGED <<verdictVars, blockVars, commentVars, runVars, jobVars>>
    \/ TimerFires /\ UNCHANGED <<verdictVars, blockVars, commentVars, runVars, jobVars>>
    \/ BackoffElapses /\ UNCHANGED <<verdictVars, blockVars, commentVars, runVars, jobVars>>

Spec == Init /\ [][Next]_vars

\* The run of the call under the scheduling of the event loop: whatever can
\* run does (a pending fetch() settles or its timer fires, a body that arrives
\* is read, a sleep elapses).
SpecLive == Init /\ [][Next]_vars /\ WF_vars(Next)

----------------------------------------------------------------------------
(* The verdict: formatPRVerdict in src/src/output-formatter.ts             *)

\* The non-ASCII characters of the source's texts, written in ASCII.
EMOJI_REJECT == ":no_entry:"
EMOJI_APPROVE == ":white_check_mark:"
DASH == "--"

\* A FactorInsight; changeDirection "undefined" is the absent field.
\* A changeRationale of "" is the absent field; hasChangeDetails tells whether
\* changeDetails is present.
FullInsight(factorId, factorName, score, changeDirection, changeRationale, hasChangeDetails, changeDetails, findings) ==
    [factorId |-> factorId, factorName |-> factorName, score |-> score,
     changeDirection |-> changeDirection, changeRationale |-> changeRationale,
     hasChangeDetails |-> hasChangeDetails, changeDetails |-> changeDetails,
     findings |-> findings]
Insight(factorId, factorName, score, changeDirection) ==
    FullInsight(factorId, factorName, score, changeDirection, "", FALSE, <<>>, <<>>)
Directions == {"undefined", "improved", "no-change", "worse", "mixed"}

\* factorInsights.map(f => f.factorName)
FactorNamesOf(fs) == [i \in 1..Len(fs) |-> fs[i].factorName]

\* A slip: the worse and mixed factors are not told apart from the others.
formatPRVerdict_WorseOnly(factorInsights) ==
    IF \A i \in 1..Len(factorInsights) : factorInsights[i].changeDirection = "undefined"
    THEN ""
    ELSE IF \E i \in 1..Len(factorInsights) : factorInsights[i].changeDirection = "worse"
    THEN "**Review verdict:** " \o EMOJI_REJECT \o " REJECT " \o DASH \o " regressed.\n\n"
    ELSE "**Review verdict:** " \o EMOJI_APPROVE \o " APPROVE " \o DASH
             \o " Changes improve or maintain quality.\n\n"
\* formatPRVerdict naming the mixed factors before the worse ones.
formatPRVerdict_MixedFirst(factorInsights) ==
    LET IsWorse(f) == f.changeDirection = "worse"
        IsMixed(f) == f.changeDirection = "mixed"
        IsImproved(f) == f.changeDirection = "improved"
        IsRed(f) == f.score <= 4
        IsYellow(f) == f.score >= 5 /\ f.score <= 7
        isPRMode == \E i \in 1..Len(factorInsights) :
                        factorInsights[i].changeDirection # "undefined"
        worseFactors == SelectSeq(factorInsights, IsWorse)
        mixedFactors == SelectSeq(factorInsights, IsMixed)
        regressingFactors == worseFactors \o mixedFactors
        improvedFactors == SelectSeq(factorInsights, IsImproved)
        rejectParts ==
            (IF Len(mixedFactors) > 0
             THEN <<Join(FactorNamesOf(mixedFactors), ", ")
                      \o " had mixed changes (includes regressions)">>
             ELSE <<>>)
            \o (IF Len(worseFactors) > 0
                THEN <<Join(FactorNamesOf(worseFactors), ", ") \o " regressed">>
                ELSE <<>>)
        remainingIssues == Len(SelectSeq(factorInsights, IsRed))
        opportunities == Len(SelectSeq(factorInsights, IsYellow))
        approveParts ==
            (IF remainingIssues > 0
             THEN <<ToString(remainingIssues) \o " critical gap"
                         \o (IF remainingIssues = 1 THEN "" ELSE "s")>>
             ELSE <<>>)
            \o (IF opportunities > 0
                THEN <<ToString(opportunities) \o " improvement opportunity"
                         \o (IF opportunities = 1 THEN "y" ELSE "ies")>>
                ELSE <<>>)
    IN  IF ~isPRMode THEN ""
        ELSE IF Len(regressingFactors) > 0
        THEN "**Review verdict:** " \o EMOJI_REJECT \o " REJECT " \o DASH \o " "
                 \o Join(rejectParts, "; ") \o "."
                 \o (IF Len(improvedFactors) > 0
                     THEN " Remaining changes improve quality and would be accepted."
                     ELSE "")
                 \o "\n\n"
        ELSE "**Review verdict:** " \o EMOJI_APPROVE \o " APPROVE " \o DASH
                 \o " Changes improve or maintain quality."
                 \o (IF remainingIssues > 0 \/ opportunities > 0
                     THEN " " \o Join(approveParts, " and ") \o " remain for future work."
                     ELSE "")
                 \o "\n\n"

\* Lines 36-88
formatPRVerdict(factorInsights) ==
    LET IsWorse(f) == f.changeDirection = "worse"
        IsMixed(f) == f.changeDirection = "mixed"
        IsImproved(f) == f.changeDirection = "improved"
        IsRed(f) == f.score <= 4
        IsYellow(f) == f.score >= 5 /\ f.score <= 7
        isPRMode == \E i \in 1..Len(factorInsights) :
                        factorInsights[i].changeDirection # "undefined"
        worseFactors == SelectSeq(factorInsights, IsWorse)
        mixedFactors == SelectSeq(factorInsights, IsMixed)
        regressingFactors == worseFactors \o mixedFactors
        improvedFactors == SelectSeq(factorInsights, IsImproved)
        rejectParts ==
            (IF Len(worseFactors) > 0
             THEN <<Join(FactorNamesOf(worseFactors), ", ") \o " regressed">>
             ELSE <<>>)
            \o (IF Len(mixedFactors) > 0
                THEN <<Join(FactorNamesOf(mixedFactors), ", ")
                         \o " had mixed changes (includes regressions)">>
                ELSE <<>>)
        remainingIssues == Len(SelectSeq(factorInsights, IsRed))
        opportunities == Len(SelectSeq(factorInsights, IsYellow))
        approveParts ==
            (IF remainingIssues > 0
             THEN <<ToString(remainingIssues) \o " critical gap"
                         \o (IF remainingIssues = 1 THEN "" ELSE "s")>>
             ELSE <<>>)
            \o (IF opportunities > 0
                THEN <<ToString(opportunities) \o " improvement opportunity"
                         \o (IF opportunities = 1 THEN "y" ELSE "ies")>>
                ELSE <<>>)
    IN  IF ~isPRMode THEN ""
        ELSE IF Len(regressingFactors) > 0
        THEN "**Review verdict:** " \o EMOJI_REJECT \o " REJECT " \o DASH \o " "
                 \o Join(rejectParts, "; ") \o "."
                 \o (IF Len(improvedFactors) > 0
                     THEN " Remaining changes improve quality and would be accepted."
                     ELSE "")
                 \o "\n\n"
        ELSE "**Review verdict:** " \o EMOJI_APPROVE \o " APPROVE " \o DASH
                 \o " Changes improve or maintain quality."
                 \o (IF remainingIssues > 0 \/ opportunities > 0
                     THEN " " \o Join(approveParts, " and ") \o " remain for future work."
                     ELSE "")
                 \o "\n\n"

\* The inputs formatPRVerdict is applied to: up to MaxInsights insights, the
\* i-th named after the i-th factor, with scores on both sides of each band edge.
MaxInsights == 3
VerdictScores == {4, 5, 7, 8}
FactorIds == <<"scope", "structure", "context", "constraints", "output", "model">>
FactorNames == <<"Scope", "Structure & Flow", "Context & Guidance", "Constraints",
                 "Output Validation", "Model-Specific Prompting">>

IdleClient ==
    /\ pc = "idle"
    /\ attempt = 0
    /\ lastError = NoError
    /\ resp = NoResponse
    /\ returned = NoBody
    /\ thrown = NoError
    /\ posts = 0
    /\ sleeps = <<>>
    /\ warnings = <<>>
    /\ timers = {}
    /\ outcomes = <<>>

VerdictInit == insights = <<>> /\ verdict = "" /\ vpc = "input"

\* The caller builds the factorInsights array.
AddInsight(score, direction) ==
    /\ vpc = "input"
    /\ Len(insights) < MaxInsights
    /\ Len(insights) < Len(FactorIds)
    /\ insights' = Append(insights,
                          Insight(FactorIds[Len(insights) + 1], FactorNames[Len(insights) + 1],
                                  score, direction))
    /\ UNCHANGED <<verdict, vpc>>

\* Line 253: formatPRVerdict(enrichedInsights)
CallFormatPRVerdict ==
    /\ vpc = "input"
    /\ verdict' = formatPRVerdict(insights)
    /\ vpc' = "done"
    /\ UNCHANGED insights

InitVerdict == IdleClient /\ VerdictInit /\ IdleBlock /\ IdleComment /\ IdleRun /\ IdleJobs

NextVerdict ==
    \/ (\E sc \in VerdictScores, d \in Directions : AddInsight(sc, d))
            /\ UNCHANGED <<clientVars, blockVars, commentVars, runVars, jobVars>>
    \/ CallFormatPRVerdict /\ UNCHANGED <<clientVars, blockVars, commentVars, runVars, jobVars>>

SpecVerdict == InitVerdict /\ [][NextVerdict]_vars

----------------------------------------------------------------------------
(* Code blocks: cleanCodeSnippet, isSectionHeader, getCodeFence and the    *)
(* block rendering of formatFactorFindings in src/src/output-formatter.ts  *)

\* The backquote character.
BT == "~"
Whitespace == {" ", "\t", "\n", "\r"}
Digits == {"0", "1", "2", "3", "4", "5", "6", "7", "8", "9"}
Upper == {"A", "B", "C", "D", "E", "F", "G", "H", "I", "J", "K", "L", "M",
          "N", "O", "P", "Q", "R", "S", "T", "U", "V", "W", "X", "Y", "Z"}
Lower == {"a", "b", "c", "d", "e", "f", "g", "h", "i", "j", "k", "l", "m",
          "n", "o", "p", "q", "r", "s", "t", "u", "v", "w", "x", "y", "z"}

Char(s, i) == SubSeq(s, i, i)
SetMin(S) == CHOOSE m \in S : \A n \in S : m <= n
SetMax(S) == CHOOSE m \in S : \A n \in S : m >= n
\* Every character of s at the places from..to is in class.
AllIn(s, from, to, class) == \A i \in from..to : Char(s, i) \in class

\* String.prototype.trimStart and trimEnd
RECURSIVE LeadingWhitespace(_, _)
LeadingWhitespace(s, i) ==
    IF i > Len(s) \/ Char(s, i) \notin Whitespace THEN 0 ELSE 1 + LeadingWhitespace(s, i + 1)
RECURSIVE TrailingWhitespace(_, _)
TrailingWhitespace(s, i) ==
    IF i < 1 \/ Char(s, i) \notin Whitespace THEN 0 ELSE 1 + TrailingWhitespace(s, i - 1)

\* String.prototype.trim
Trim(s) ==
    LET lead == LeadingWhitespace(s, 1)
    IN  IF lead = Len(s) THEN ""
        ELSE SubSeq(s, lead + 1, Len(s) - TrailingWhitespace(s, Len(s)))

\* String.prototype.split('\n')
RECURSIVE SplitLines(_)
SplitLines(s) ==
    LET breaks == {i \in 1..Len(s) : Char(s, i) = "\n"}
    IN  IF breaks = {} THEN <<s>>
        ELSE <<SubSeq(s, 1, SetMin(breaks) - 1)>>
                 \o SplitLines(SubSeq(s, SetMin(breaks) + 1, Len(s)))

\* Line 171: whether t, a suffix of the line, matches \s*\([^)]+\)\s*$
IsAnnotationSuffix(t) ==
    \E o \in 1..Len(t) : \E c \in (o + 2)..Len(t) :
        /\ AllIn(t, 1, o - 1, Whitespace)
        /\ Char(t, o) = "("
        /\ \A i \in (o + 1)..(c - 1) : Char(t, i) # ")"
        /\ Char(t, c) = ")"
        /\ AllIn(t, c + 1, Len(t), Whitespace)

\* Line 171: line.replace(/\s*\([^)]+\)\s*$/g, '') removes the leftmost match.
StripAnnotation(line) ==
    LET starts == {p \in 1..Len(line) : IsAnnotationSuffix(SubSeq(line, p, Len(line)))}
    IN  IF starts = {} THEN line ELSE SubSeq(line, 1, SetMin(starts) - 1)

\* Line 176: /^\d+\)\s+[A-Z]/
IsNumberedSection(s) ==
    \E d \in 1..Len(s) : \E w \in 1..Len(s) :
        /\ d + 1 + w + 1 <= Len(s)
        /\ AllIn(s, 1, d, Digits)
        /\ Char(s, d + 1) = ")"
        /\ AllIn(s, d + 2, d + 1 + w, Whitespace)
        /\ Char(s, d + w + 2) \in Upper

\* Line 181: /^#{1,6}\s+\d+\)\s+[A-Z]/
IsNumberedHeading(s) ==
    \E h \in 1..6 : \E w \in 1..Len(s) :
        /\ h + w < Len(s)
        /\ AllIn(s, 1, h, {"#"})
        /\ AllIn(s, h + 1, h + w, Whitespace)
        /\ IsNumberedSection(SubSeq(s, h + w + 1, Len(s)))

\* Line 186: /^#{1,6}\s+[A-Z]/
IsHeading(s) ==
    \E h \in 1..6 : \E w \in 1..Len(s) :
        /\ h + w + 1 <= Len(s)
        /\ AllIn(s, 1, h, {"#"})
        /\ AllIn(s, h + 1, h + w, Whitespace)
        /\ Char(s, h + w + 1) \in Upper

\* Line 192: /^[A-Z][a-zA-Z\s]{1,30}:\s*$/
IsColonLabel(s) ==
    /\ Len(s) >= 3
    /\ Char(s, 1) \in Upper
    /\ \E n \in 1..30 :
          /\ n + 2 <= Len(s)
          /\ AllIn(s, 2, n + 1, Upper \cup Lower \cup Whitespace)
          /\ Char(s, n + 2) = ":"
          /\ AllIn(s, n + 3, Len(s), Whitespace)

\* Line 197: /^-{3,}$/, /^={3,}$/, /^\*{3,}$/
IsHorizontalRule(s) ==
    /\ Len(s) >= 3
    /\ \E c \in {"-", "=", "*"} : AllIn(s, 1, Len(s), {c})

\* Lines 163-202
isSectionHeader(line) ==
    IF line # Trim(line) THEN FALSE
    ELSE LET cleanedLine == Trim(StripAnnotation(line))
         IN  \/ IsNumberedSection(cleanedLine)
             \/ IsNumberedHeading(cleanedLine)
             \/ IsHeading(cleanedLine)
             \/ IsColonLabel(cleanedLine)
             \/ IsHorizontalRule(line)

\* A slip: the line is classified as it stands, so that an indented header is kept.
RECURSIVE KeptLines_Untrimmed(_)
KeptLines_Untrimmed(lines) ==
    IF Len(lines) = 0 THEN <<>>
    ELSE LET line == Head(lines)
             trimmed == Trim(line)
         IN  (IF trimmed = "" THEN <<line>>
              ELSE IF isSectionHeader(line) THEN <<>>
              ELSE <<line>>) \o KeptLines_Untrimmed(Tail(lines))
\* Lines 104-119: the lines kept by the loop.
RECURSIVE KeptLines(_)
KeptLines(lines) ==
    IF Len(lines) = 0 THEN <<>>
    ELSE LET line == Head(lines)
             trimmed == Trim(line)
         IN  (IF trimmed = "" THEN <<line>>
              ELSE IF isSectionHeader(trimmed) THEN <<>>
              ELSE <<line>>) \o KeptLines(Tail(lines))

\* A slip: the safety return of lines 124-126 is missing.
cleanCodeSnippet_NoSafety(c) ==
    Trim(Join(KeptLines(SplitLines(c)), "\n"))
\* Lines 100-129
cleanCodeSnippet(c) ==
    LET result == Trim(Join(KeptLines(SplitLines(c)), "\n"))
    IN  IF result = "" /\ Trim(c) # "" THEN c ELSE result

\* The lengths of the maximal backquote runs of s, in order.
RECURSIVE BacktickRuns(_)
BacktickRuns(s) ==
    LET ticks == {i \in 1..Len(s) : Char(s, i) = BT}
    IN  IF ticks = {} THEN <<>>
        ELSE LET from == SetMin(ticks)
                 stops == {i \in from..Len(s) : Char(s, i) # BT}
                 to == IF stops = {} THEN Len(s) ELSE SetMin(stops) - 1
             IN  <<to - from + 1>> \o BacktickRuns(SubSeq(s, to + 1, Len(s)))

\* Line 146: content.match(/BT{3,}/g), as the lengths of the matches.
FenceMatches(content) ==
    LET AtLeast3(n) == n >= 3 IN SelectSeq(BacktickRuns(content), AtLeast3)

RECURSIVE MaxOf(_, _)
MaxOf(lengths, start) ==
    IF Len(lengths) = 0 THEN start
    ELSE MaxOf(Tail(lengths), IF Head(lengths) > start THEN Head(lengths) ELSE start)

\* A slip: the fence is as long as the longest run, not longer.
getCodeFence_NoPlusOne(content) ==
    LET maxRun == MaxOf(FenceMatches(content), 0)
    IN  Repeat(BT, IF maxRun > 3 THEN maxRun ELSE 3)
\* Lines 144-153
getCodeFence(content) ==
    LET maxRun == MaxOf(FenceMatches(content), 0)
    IN  Repeat(BT, IF maxRun + 1 > 3 THEN maxRun + 1 ELSE 3)

\* Lines 415 and 426: the fenced block
FencedBlock(content) ==
    LET codeFence == getCodeFence(content)
    IN  codeFence \o "\n" \o content \o "\n" \o codeFence \o "\n\n"

\* Lines 401-416: the block of finding.codeSnippet.code ("" when none is rendered)
SnippetBlock(snippetCode) ==
    IF Trim(snippetCode) = "" THEN ""
    ELSE LET cleanedCode == cleanCodeSnippet(snippetCode)
         IN  IF Trim(cleanedCode) = "" THEN "" ELSE FencedBlock(cleanedCode)

\* Lines 423-427: the block of finding.rewrittenCode ("" when none is rendered)
RewriteBlock(rewrittenCode) ==
    IF rewrittenCode = "" \/ Trim(rewrittenCode) = "" THEN ""
    ELSE FencedBlock(rewrittenCode)


----------------------------------------------------------------------------
(* The report: formatPRComment and what it calls, in                       *)
(* src/src/output-formatter.ts                                             *)

BOT_MARKER == "<!-- prompt-factor-reviewer-api -->"
PR_COMMENT_MAX_LENGTH == 65000

\* The non-ASCII characters of the source's texts, written in ASCII.
EMOJI_RED == ":red_circle:"
EMOJI_YELLOW == ":yellow_circle:"
EMOJI_GREEN == ":green_circle:"

\* A Finding; hasSnippet tells whether codeSnippet is present, and a
\* rewrittenCode of "" is the absent field.
Finding(findingNumber, description, hasSnippet, startLine, endLine, issue, snippetCode, consideration, rewrittenCode) ==
    [findingNumber |-> findingNumber, description |-> description,
     hasSnippet |-> hasSnippet, startLine |-> startLine, endLine |-> endLine,
     issue |-> issue, code |-> snippetCode, consideration |-> consideration,
     rewrittenCode |-> rewrittenCode]

\* A FactorEvaluationResult
FactorResult(factorId, factorName, score, tableRationale, findings) ==
    [factorId |-> factorId, factorName |-> factorName, score |-> score,
     tableRationale |-> tableRationale, findings |-> findings]

\* A ComparisonResult
Comparison(promptFile, promptDescription, factorInsights, factorResults) ==
    [promptFile |-> promptFile, promptDescription |-> promptDescription,
     factorInsights |-> factorInsights, factorResults |-> factorResults]

\* src/unnamed/part_000 lines 3-7
SCORE_LABELS ==
    (10 :> "Good" @@ 9 :> "Good" @@ 8 :> "Good"
     @@ 7 :> "Needs Work" @@ 6 :> "Needs Work" @@ 5 :> "Needs Work"
     @@ 4 :> "Critical" @@ 3 :> "Critical" @@ 2 :> "Critical" @@ 1 :> "Critical")

\* A slip: the edges of the bands are compared strictly.
getTrafficLightEmoji_StrictEdges(score) ==
    IF score < 4 THEN EMOJI_RED
    ELSE IF score < 7 THEN EMOJI_YELLOW
    ELSE EMOJI_GREEN
\* Lines 15-19
getTrafficLightEmoji(score) ==
    IF score <= 4 THEN EMOJI_RED
    ELSE IF score <= 7 THEN EMOJI_YELLOW
    ELSE EMOJI_GREEN

\* Lines 24-29
getChangeEmoji(direction) ==
    IF direction = "improved" THEN ":white_check_mark: Improved"
    ELSE IF direction = "worse" THEN ":warning: Worse"
    ELSE IF direction = "mixed" THEN ":arrows_counterclockwise: Mixed"
    ELSE ":heavy_minus_sign: No change"

\* The places of s at which sub starts.
Places(s, sub) == {i \in 1..(Len(s) - Len(sub) + 1) : SubSeq(s, i, i + Len(sub) - 1) = sub}

\* The length of the run of character c that starts at place i of s.
RECURSIVE RunLength(_, _, _)
RunLength(s, i, c) ==
    IF i > Len(s) \/ Char(s, i) # c THEN 0 ELSE 1 + RunLength(s, i + 1, c)

\* String.prototype.replace(/sub/g, by) for a fixed text sub
RECURSIVE ReplaceAll(_, _, _)
ReplaceAll(s, sub, by) ==
    LET at == Places(s, sub)
    IN  IF at = {} THEN s
        ELSE SubSeq(s, 1, SetMin(at) - 1) \o by
                 \o ReplaceAll(SubSeq(s, SetMin(at) + Len(sub), Len(s)), sub, by)

\* String.prototype.replace(/BT{3,}/g, m => unit.repeat(m.length))
RECURSIVE ReplaceFenceRuns(_, _)
ReplaceFenceRuns(s, unit) ==
    LET at == Places(s, Repeat(BT, 3))
    IN  IF at = {} THEN s
        ELSE LET from == SetMin(at)
                 n == RunLength(s, from, BT)
             IN  SubSeq(s, 1, from - 1) \o Repeat(unit, n)
                     \o ReplaceFenceRuns(SubSeq(s, from + n, Len(s)), unit)

\* A slip: replace(/BTBTBT/g, ...) escapes three backquotes at a time and leaves
\* the rest of a longer run as it is.
sanitizeInlineText_FixedTriple(text) ==
    IF text = "" THEN text
    ELSE ReplaceAll(text, Repeat(BT, 3), Repeat("\\" \o BT, 3))
\* Lines 135-138
sanitizeInlineText(text) ==
    IF text = "" THEN text ELSE ReplaceFenceRuns(text, "\\" \o BT)

\* Line 263: replace(/BTBTBT[\s\S]*?BTBTBT/g, ''): each block runs from a fence to
\* the nearest fence that starts three or more places later.
RECURSIVE StripCodeBlocks(_)
StripCodeBlocks(s) ==
    LET at == Places(s, Repeat(BT, 3))
    IN  IF at = {} THEN s
        ELSE LET open == SetMin(at)
                 closes == {j \in at : j >= open + 3}
             IN  IF closes = {} THEN s
                 ELSE SubSeq(s, 1, open - 1)
                          \o StripCodeBlocks(SubSeq(s, SetMin(closes) + 3, Len(s)))

\* Lines 208-219
mergeFindings(factorInsights, factorResults) ==
    [i \in 1..Len(factorInsights) |->
        LET insight == factorInsights[i]
            found == {j \in 1..Len(factorResults) : factorResults[j].factorId = insight.factorId}
        IN  IF found # {}
            THEN [insight EXCEPT !.findings = factorResults[SetMin(found)].findings]
            ELSE insight]

\* Lines 260-268
formatPromptHeader(promptFile, description) ==
    LET safeDescription ==
            Trim(ReplaceAll(ReplaceFenceRuns(StripCodeBlocks(description), ""), "\n", " "))
    IN  "## " \o BT \o promptFile \o BT \o "\n\n**Prompt overview:** " \o safeDescription \o "\n\n"

\* Lines 287-308: the table row of one factor
TableRow(factor, factorInsights, isPRMode) ==
    LET emoji == getTrafficLightEmoji(factor.score)
        found == {j \in 1..Len(factorInsights) : factorInsights[j].factorId = factor.factorId}
        hasInsight == found # {}
        insight == factorInsights[SetMin(found)]
        rationale ==
            IF isPRMode /\ hasInsight /\ insight.changeRationale # ""
            THEN insight.changeRationale
                     \o (IF EndsWith(insight.changeRationale, ".") THEN " " ELSE ". ")
                     \o factor.tableRationale
            ELSE factor.tableRationale
        safeRationale == ReplaceAll(rationale, "|", "\\|")
    IN  IF isPRMode /\ hasInsight /\ insight.changeDirection # "undefined"
        THEN "\n| **" \o factor.factorName \o "** | " \o emoji \o " | "
                 \o getChangeEmoji(insight.changeDirection) \o " | " \o safeRationale \o " |"
        ELSE "\n| **" \o factor.factorName \o "** | " \o emoji \o " | " \o safeRationale \o " |"

RECURSIVE TableRows(_, _, _)
TableRows(factorResults, factorInsights, isPRMode) ==
    IF Len(factorResults) = 0 THEN ""
    ELSE TableRow(Head(factorResults), factorInsights, isPRMode)
             \o TableRows(Tail(factorResults), factorInsights, isPRMode)

\* Lines 270-311
formatEvaluationTable(factorResults, factorInsights) ==
    LET isPRMode == \E i \in 1..Len(factorInsights) :
                        factorInsights[i].changeDirection # "undefined"
    IN  "### Evaluation\n\n"
            \o (IF isPRMode
                THEN "| Factor | Factor Assessment | Impact of PR | Rationale |\n"
                         \o "|--------|-------------------|--------------|-----------|"
                ELSE "| Factor | Factor Assessment | Rationale |\n"
                         \o "|--------|-------------------|-----------|")
            \o TableRows(factorResults, factorInsights, isPRMode)
            \o "\n\n---\n\n"

\* Lines 393-430: one finding of a factor
FindingText(finding, promptFile) ==
    LET title == IF finding.hasSnippet /\ finding.issue # "" THEN finding.issue
                 ELSE finding.description
        lineRef == IF finding.startLine = finding.endLine THEN ToString(finding.startLine)
                   ELSE ToString(finding.startLine) \o "-" \o ToString(finding.endLine)
    IN  "<h4>" \o ToString(finding.findingNumber) \o ". " \o title \o "</h4>\n\n"
            \o (IF finding.hasSnippet /\ Trim(finding.code) # ""
                THEN "**Assessment observation:** " \o sanitizeInlineText(finding.description)
                         \o ". Prompt text example from " \o BT \o promptFile \o ":" \o lineRef
                         \o BT \o "\n\n" \o SnippetBlock(finding.code)
                ELSE "")
            \o "**Consideration:** " \o sanitizeInlineText(finding.consideration) \o "\n\n"
            \o (IF RewriteBlock(finding.rewrittenCode) # ""
                THEN "**Proposed prompt edit:**\n\n" \o RewriteBlock(finding.rewrittenCode)
                ELSE "")
            \o "---\n\n"

RECURSIVE FindingsText(_, _)
FindingsText(findings, promptFile) ==
    IF Len(findings) = 0 THEN ""
    ELSE FindingText(Head(findings), promptFile) \o FindingsText(Tail(findings), promptFile)

\* Lines 376-378: the bullets of changeDetails
RECURSIVE ChangeBullets(_)
ChangeBullets(changeDetails) ==
    IF Len(changeDetails) = 0 THEN ""
    ELSE "- " \o sanitizeInlineText(Head(changeDetails)) \o "\n"
             \o ChangeBullets(Tail(changeDetails))

\* Lines 343-436
formatFactorFindings(factor, promptFile) ==
    LET findingCount == Len(factor.findings)
        hasChanges == factor.hasChangeDetails /\ Len(factor.changeDetails) > 0
        label == IF hasChanges /\ findingCount > 0
                 THEN ToString(findingCount) \o " improvement"
                          \o (IF findingCount = 1 THEN "" ELSE "s") \o " + PR changes"
                 ELSE IF hasChanges THEN "PR changes only"
                 ELSE IF findingCount = 1 THEN "1 finding"
                 ELSE ToString(findingCount) \o " findings"
        isPRMode == factor.changeDirection # "undefined"
    IN  IF findingCount = 0 /\ ~factor.hasChangeDetails THEN ""
        ELSE "<details>\n"
                 \o "<summary><strong>" \o factor.factorName \o "</strong> " \o DASH \o " "
                 \o label \o "</summary>\n\n"
                 \o "<br>\n\n"
                 \o (IF isPRMode
                     THEN "<h4>Changes in this PR</h4>\n\n"
                              \o (IF hasChanges THEN ChangeBullets(factor.changeDetails)
                                  ELSE "No observed changes in this PR.\n")
                              \o "\n---\n\n"
                     ELSE "")
                 \o (IF findingCount > 0
                     THEN (IF isPRMode THEN "<h4>Further improvements</h4>\n\n" ELSE "")
                              \o FindingsText(factor.findings, promptFile)
                     ELSE "")
                 \o "</details>\n\n"

RECURSIVE FactorsFindings(_, _)
FactorsFindings(factors, promptFile) ==
    IF Len(factors) = 0 THEN ""
    ELSE formatFactorFindings(Head(factors), promptFile)
             \o FactorsFindings(Tail(factors), promptFile)

\* formatRecommendations with the yellow band's edges one score too wide.
formatRecommendations_WideYellow(factorInsights, promptFile) ==
    LET IsRed(f) == f.score <= 4
        IsYellow(f) == f.score >= 4 /\ f.score <= 8
        critical == SelectSeq(factorInsights, IsRed)
        opportunities == SelectSeq(factorInsights, IsYellow)
    IN  IF Len(critical) = 0 /\ Len(opportunities) = 0 THEN ""
        ELSE "### Considerations\n\n"
                 \o (IF Len(critical) > 0
                     THEN "#### " \o EMOJI_RED \o " Major Gaps\n\n"
                              \o FactorsFindings(critical, promptFile)
                     ELSE "")
                 \o (IF Len(opportunities) > 0
                     THEN "#### " \o EMOJI_YELLOW \o " Opportunities to Improve\n\n"
                              \o FactorsFindings(opportunities, promptFile)
                     ELSE "")

\* Lines 313-341
formatRecommendations(factorInsights, promptFile) ==
    LET IsRed(f) == f.score <= 4
        IsYellow(f) == f.score >= 5 /\ f.score <= 7
        critical == SelectSeq(factorInsights, IsRed)
        opportunities == SelectSeq(factorInsights, IsYellow)
    IN  IF Len(critical) = 0 /\ Len(opportunities) = 0 THEN ""
        ELSE "### Considerations\n\n"
                 \o (IF Len(critical) > 0
                     THEN "#### " \o EMOJI_RED \o " Major Gaps\n\n"
                              \o FactorsFindings(critical, promptFile)
                     ELSE "")
                 \o (IF Len(opportunities) > 0
                     THEN "#### " \o EMOJI_YELLOW \o " Opportunities to Improve\n\n"
                              \o FactorsFindings(opportunities, promptFile)
                     ELSE "")

\* Lines 246-258
formatFileSection(comp) ==
    LET enrichedInsights == mergeFindings(comp.factorInsights, comp.factorResults)
    IN  formatPromptHeader(comp.promptFile, comp.promptDescription)
            \o formatEvaluationTable(comp.factorResults, enrichedInsights)
            \o formatPRVerdict(enrichedInsights)
            \o formatRecommendations(enrichedInsights, comp.promptFile)

RECURSIVE FileSections(_)
FileSections(comparisons) ==
    IF Len(comparisons) = 0 THEN ""
    ELSE formatFileSection(Head(comparisons)) \o "\n---\n\n" \o FileSections(Tail(comparisons))

\* Lines 224-235: the document before truncation
CommentDocument(comparisons) ==
    LET fileCount == Len(comparisons)
        factorCount == IF Len(comparisons) > 0 THEN Len(comparisons[1].factorResults) ELSE 0
    IN  BOT_MARKER \o "\n"
            \o "# PROMPT REVIEW\n\n"
            \o "Reviewed " \o ToString(fileCount) \o " prompt file(s) against "
            \o ToString(factorCount) \o " factors.\n\n"
            \o "---\n\n"
            \o FileSections(comparisons)

\* Line 240
TRUNCATION_NOTICE ==
    "\n\n---\n\n**Comment truncated.** See the Job Summary in the Actions tab for the full detailed report.\n"

\* A slip: the document is cut at the limit itself, leaving no room for the notice.
formatPRComment_CutAtLimit(comparisons) ==
    LET md == CommentDocument(comparisons)
    IN  IF Len(md) > PR_COMMENT_MAX_LENGTH
        THEN Substring0(md, PR_COMMENT_MAX_LENGTH) \o TRUNCATION_NOTICE
        ELSE md
\* A slip: on truncation the end of the document is kept instead of its start.
formatPRComment_KeepTail(comparisons) ==
    LET md == CommentDocument(comparisons)
    IN  IF Len(md) > PR_COMMENT_MAX_LENGTH
        THEN SubSeq(md, Len(md) - (PR_COMMENT_MAX_LENGTH - 200) + 1, Len(md))
                 \o TRUNCATION_NOTICE
        ELSE md
\* Lines 223-244
formatPRComment(comparisons) ==
    LET md == CommentDocument(comparisons)
    IN  IF Len(md) > PR_COMMENT_MAX_LENGTH
        THEN Substring0(md, PR_COMMENT_MAX_LENGTH - 200) \o TRUNCATION_NOTICE
        ELSE md

----------------------------------------------------------------------------
(* The rendering of one piece of evaluator text: a code block, an inline   *)
(* text or the file header                                                 *)

\* The code the blocks are rendered for: strings of up to MaxCodeLen characters
\* put together from these pieces ("# A" is a line that isSectionHeader drops).
MaxCodeLen == 7
CodePieces == {BT, "a", " ", "\n", "# A"}

\* comparison.promptFile of the header
HeaderFile == "prompts/agent.md"

BlockInit == code = "" /\ block = "" /\ bpc = "input"

\* The evaluator's finding holds one more piece of code.
AppendCode(c) ==
    /\ bpc = "input"
    /\ Len(code) + Len(c) <= MaxCodeLen
    /\ code' = code \o c
    /\ UNCHANGED <<block, bpc>>

\* Lines 401-416, with the code as finding.codeSnippet.code
RenderSnippet ==
    /\ bpc = "input"
    /\ block' = SnippetBlock(code)
    /\ bpc' = "snippet"
    /\ UNCHANGED code

\* Lines 423-427, with the code as finding.rewrittenCode
RenderRewrite ==
    /\ bpc = "input"
    /\ block' = RewriteBlock(code)
    /\ bpc' = "rewrite"
    /\ UNCHANGED code

\* Lines 377, 407 and 420, with the code as the free text (a changeDetails
\* entry, finding.description or finding.consideration)
RenderInline ==
    /\ bpc = "input"
    /\ block' = sanitizeInlineText(code)
    /\ bpc' = "inline"
    /\ UNCHANGED code

\* Lines 260-268, with the code as the prompt description
RenderHeader ==
    /\ bpc = "input"
    /\ block' = formatPromptHeader(HeaderFile, code)
    /\ bpc' = "header"
    /\ UNCHANGED code

InitBlock == IdleClient /\ IdleVerdict /\ BlockInit /\ IdleComment /\ IdleRun /\ IdleJobs

NextBlock ==
    \/ (\E c \in CodePieces : AppendCode(c)) /\ UNCHANGED <<clientVars, verdictVars, commentVars, runVars, jobVars>>
    \/ RenderSnippet /\ UNCHANGED <<clientVars, verdictVars, commentVars, runVars, jobVars>>
    \/ RenderRewrite /\ UNCHANGED <<clientVars, verdictVars, commentVars, runVars, jobVars>>
    \/ RenderInline /\ UNCHANGED <<clientVars, verdictVars, commentVars, runVars, jobVars>>
    \/ RenderHeader /\ UNCHANGED <<clientVars, verdictVars, commentVars, runVars, jobVars>>

SpecBlock == InitBlock /\ [][NextBlock]_vars

----------------------------------------------------------------------------
(* The reports                                                             *)

\* The reports formatPRComment is applied to: up to MaxFiles comparisons, each
\* with one of the factor sets below and one of the descriptions below.
MaxFiles == 2

SnippetFinding ==
    Finding(1, "Instructions embed " \o Repeat(BT, 3) \o " fences", TRUE, 4, 9,
            "Fence in prompt", "# Output\n" \o Repeat(BT, 3) \o "json\n{}\n" \o Repeat(BT, 3),
            "Use " \o Repeat(BT, 4) \o " fences", Repeat(BT, 4) \o "\nfixed\n" \o Repeat(BT, 4))
PlainFinding ==
    Finding(1, "No anti-injection instructions", FALSE, 0, 0, "", "",
            "Add an explicit instruction", "")

\* Factor set 1: on-demand, one critical factor whose findings the synthesis dropped.
\* Factor set 2: a pull request with a regressed and an improved factor.
\* Factor set 3: a pull request with one unchanged factor and no findings.
FactorInsightsOf(v) ==
    CASE v = 1 -> <<Insight("scope", "Scope", 3, "undefined")>>
      [] v = 2 -> <<FullInsight("scope", "Scope", 4, "worse", "Scope widened", TRUE,
                                <<"Added a " \o Repeat(BT, 3) \o " block">>, <<>>),
                    Insight("constraints", "Constraints", 9, "improved")>>
      [] OTHER -> <<Insight("scope", "Scope", 6, "no-change")>>
FactorResultsOf(v) ==
    CASE v = 1 -> <<FactorResult("scope", "Scope", 3, "Goal unclear | scope drifts",
                                 <<SnippetFinding>>)>>
      [] v = 2 -> <<FactorResult("scope", "Scope", 4, "Two goals", <<PlainFinding>>),
                    FactorResult("constraints", "Constraints", 9, "Clear limits", <<>>)>>
      [] OTHER -> <<FactorResult("scope", "Scope", 6, "Mostly focused", <<>>)>>
FactorSets == {1, 2, 3}

PromptFileOf(n) == "prompts/file" \o ToString(n) \o ".md"

\* Descriptions 1 and 2 are short; 3 and 4 fill the report of a single file to
\* exactly PR_COMMENT_MAX_LENGTH characters and to one more; 5 is longer still.
DescriptionOf(v, d) ==
    LET base == Len(CommentDocument(<<Comparison(PromptFileOf(1), "", FactorInsightsOf(v),
                                                 FactorResultsOf(v))>>))
    IN  CASE d = 1 -> "Generates test content"
          [] d = 2 -> "Replies in " \o Repeat(BT, 3) \o "json\n{}\n" \o Repeat(BT, 3)
                          \o " blocks\nand " \o Repeat(BT, 4) \o " more"
          [] d = 3 -> Repeat("x", PR_COMMENT_MAX_LENGTH - base)
          [] d = 4 -> Repeat("x", PR_COMMENT_MAX_LENGTH - base + 1)
          [] OTHER -> Repeat("x", PR_COMMENT_MAX_LENGTH + 5000)
ShortDescriptions == {1, 2}
LongDescriptions == {3, 4, 5}

CommentInit == comps = <<>> /\ comment = "" /\ cpc = "input"

\* The caller collects the comparison of one more file (the long descriptions
\* are given to the first file only).
AddComparison(v, d) ==
    /\ cpc = "input"
    /\ Len(comps) < MaxFiles
    /\ Len(comps) > 0 => d \in ShortDescriptions
    /\ comps' = Append(comps, Comparison(PromptFileOf(Len(comps) + 1), DescriptionOf(v, d),
                                         FactorInsightsOf(v), FactorResultsOf(v)))
    /\ UNCHANGED <<comment, cpc>>

\* formatPRComment(comparisons)
CallFormatPRComment ==
    /\ cpc = "input"
    /\ comment' = formatPRComment(comps)
    /\ cpc' = "done"
    /\ UNCHANGED comps

InitComment == IdleClient /\ IdleVerdict /\ IdleBlock /\ CommentInit /\ IdleRun /\ IdleJobs

NextComment ==
    \/ (\E v \in FactorSets, d \in ShortDescriptions \cup LongDescriptions : AddComparison(v, d))
            /\ UNCHANGED <<clientVars, verdictVars, blockVars, runVars, jobVars>>
    \/ CallFormatPRComment /\ UNCHANGED <<clientVars, verdictVars, blockVars, runVars, jobVars>>

SpecComment == InitComment /\ [][NextComment]_vars

----------------------------------------------------------------------------
(* The evaluation table of one file                                        *)

\* The table formatEvaluationTable is applied to: up to MaxFactors factors, each
\* with a score and the changeDirection of its insight.
MaxFactors == 2
Scores == 1..10
TableDirections == {"undefined", "improved", "worse"}

TableInit ==
    /\ comps = <<Comparison(HeaderFile, "", <<>>, <<>>)>>
    /\ comment = ""
    /\ cpc = "factors"

\* The evaluator's answer holds one more factor.
AddFactor(score, direction) ==
    /\ cpc = "factors"
    /\ Len(comps[1].factorResults) < MaxFactors
    /\ LET n == Len(comps[1].factorResults) + 1
       IN  comps' = <<Comparison(comps[1].promptFile, comps[1].promptDescription,
                        Append(comps[1].factorInsights,
                               Insight(FactorIds[n], FactorNames[n], score, direction)),
                        Append(comps[1].factorResults,
                               FactorResult(FactorIds[n], FactorNames[n], score,
                                            "Rationale", <<>>)))>>
    /\ UNCHANGED <<comment, cpc>>

\* Line 251: formatEvaluationTable(factorResults, factorInsights)
CallFormatEvaluationTable ==
    /\ cpc = "factors"
    /\ comment' = formatEvaluationTable(comps[1].factorResults, comps[1].factorInsights)
    /\ cpc' = "table"
    /\ UNCHANGED comps

InitTable == IdleClient /\ IdleVerdict /\ IdleBlock /\ TableInit /\ IdleRun /\ IdleJobs

NextTable ==
    \/ (\E score \in Scores, direction \in TableDirections : AddFactor(score, direction))
            /\ UNCHANGED <<clientVars, verdictVars, blockVars, runVars, jobVars>>
    \/ CallFormatEvaluationTable /\ UNCHANGED <<clientVars, verdictVars, blockVars, runVars, jobVars>>

SpecTable == InitTable /\ [][NextTable]_vars

----------------------------------------------------------------------------
(* The run: run(), runPRMode, runOnDemandMode, postOrUpdatePRComment and   *)
(* postReviewVerdict in src/src/index.ts.  callReviewAPI appears by its    *)
(* outcome: the body it returns or the error it throws.                    *)

MaxRuns == 2

\* A ComparisonResult of the answer: one file with one factor.
RunComparison(score, direction, hasCriticalIssue) ==
    [promptFile |-> HeaderFile, promptDescription |-> "Agent prompt",
     factorInsights |-> <<Insight("scope", "Scope", score, direction)>>,
     factorResults |-> <<FactorResult("scope", "Scope", score, "Rationale", <<>>)>>,
     hasCriticalIssue |-> hasCriticalIssue]

\* The results arrays of the answers: none, one or two files.
RunResults ==
    {<<>>}
    \cup {<<RunComparison(s, d, f)>> : s \in {3, 8}, d \in {"improved", "worse"}, f \in BOOLEAN}
    \cup {<<RunComparison(8, "improved", FALSE), RunComparison(8, "mixed", FALSE)>>,
          <<RunComparison(8, "improved", FALSE), RunComparison(3, "no-change", TRUE)>>}

\* The bodies callReviewAPI returns.
RunAnswers ==
    {Answer("success", TRUE, r, FALSE, "") : r \in RunResults}
    \cup {Answer("success", FALSE, <<>>, FALSE, ""),
          Answer("success", FALSE, <<>>, TRUE, "Partial outage"),
          Answer("error", FALSE, <<>>, TRUE, "Invalid API key"),
          Answer("error", FALSE, <<>>, TRUE, ""),
          Answer("error", FALSE, <<>>, FALSE, ""),
          Answer("error", TRUE, <<RunComparison(8, "improved", FALSE)>>, TRUE, "Quota exceeded")}

\* The messages of the errors callReviewAPI throws.
RunErrors == {"API returned 500", "API error: 401"}

\* What stops a run before it calls the API.
Preconditions == {"ok", "no-token", "no-pr", "no-files", "no-prompt-file"}

\* A comment of somebody else on the pull request.
HumanComment == [id |-> 1, body |-> "LGTM"]

RunInit ==
    /\ rpc = "ready"
    /\ mode = ""
    /\ answer = NoAnswer
    /\ apiCalls = 0
    /\ existing = 0
    /\ prComments \in {<<>>, <<HumanComment>>}
    /\ written = NothingWritten
    /\ failure = ""
    /\ runs = 0

\* index.ts lines 16-58, 60-113 and 178-210: a run begins, in mode m, and either
\* stops at one of the early exits or calls callReviewAPI.
StartRun(m, pre) ==
    /\ rpc \in {"ready", "done", "failed"}
    /\ runs < MaxRuns
    /\ pre \in (IF m = "pr" THEN {"ok", "no-token", "no-pr", "no-files"}
                ELSE {"ok", "no-prompt-file"})
    /\ runs' = runs + 1
    /\ mode' = m
    /\ answer' = NoAnswer
    /\ existing' = 0
    /\ written' = NothingWritten
    /\ apiCalls' = IF pre = "ok" THEN 1 ELSE 0
    /\ rpc' = IF pre = "ok" THEN "calling" ELSE IF pre = "no-files" THEN "done" ELSE "failed"
    /\ failure' =
          CASE pre = "no-token" -> "GITHUB_TOKEN environment variable is required for PR mode"
            [] pre = "no-pr" -> "No pull request found in event payload"
            [] pre = "no-prompt-file" ->
                   "prompt_file input is required for on-demand mode (workflow_dispatch)"
            [] OTHER -> ""
    /\ UNCHANGED prComments

\* index.ts lines 128-130 and 213-215: the message of the error for a failed payload
PayloadError(a) ==
    "API returned error: "
        \o (IF a.hasMessage /\ a.message # "" THEN a.message ELSE "Unknown error")

\* index.ts lines 128 and 213: the test of the payload
PayloadRejected(m, a) ==
    \/ a.status # "success"
    \/ ~a.hasResults
    \/ m = "on-demand" /\ Len(a.results) = 0

\* index.ts lines 117-131 and 198-215: callReviewAPI returns the body a.
ApiReturns(a) ==
    /\ rpc = "calling"
    /\ answer' = a
    /\ IF PayloadRejected(mode, a)
       THEN rpc' = "failed" /\ failure' = PayloadError(a)
       ELSE rpc' = (IF mode = "pr" THEN "listing" ELSE "summarising") /\ UNCHANGED failure
    /\ UNCHANGED <<mode, apiCalls, existing, prComments, written, runs>>

\* index.ts lines 53-56: callReviewAPI throws, and run() reports the message.
ApiThrows(message) ==
    /\ rpc = "calling"
    /\ rpc' = "failed"
    /\ failure' = message
    /\ UNCHANGED <<mode, answer, apiCalls, existing, prComments, written, runs>>

\* index.ts line 134: apiResponse.results.map(r => r.comparison)
ComparisonsOf(a) == a.results

\* The places of the comments whose body includes the marker.
MarkerComments(cs) == {i \in 1..Len(cs) : Includes(cs[i].body, BOT_MARKER)}

\* A slip: the search looks for the marker at the end of the body.
FindExisting_AtEnd(cs) ==
    LET found == {i \in 1..Len(cs) : EndsWith(cs[i].body, BOT_MARKER)}
    IN  IF found = {} THEN 0 ELSE cs[SetMin(found)].id
\* index.ts lines 278-280: comments.find(c => c.body?.includes(BOT_MARKER))
FindExisting(cs) ==
    IF MarkerComments(cs) = {} THEN 0 ELSE cs[SetMin(MarkerComments(cs))].id

\* index.ts lines 274-280: the comments are listed and searched.
ListComments ==
    /\ rpc = "listing"
    /\ existing' = FindExisting(prComments)
    /\ rpc' = "writing"
    /\ UNCHANGED <<mode, answer, apiCalls, prComments, written, failure, runs>>

\* index.ts lines 148-149 and 282-288: the comment is updated or created.
WriteComment ==
    /\ rpc = "writing"
    /\ LET body == formatPRComment(ComparisonsOf(answer))
       IN  IF existing # 0
           THEN /\ prComments' = [i \in 1..Len(prComments) |->
                                     IF prComments[i].id = existing
                                     THEN [id |-> existing, body |-> body]
                                     ELSE prComments[i]]
                /\ written' = [written EXCEPT !.comment = "updated"]
           ELSE /\ prComments' = Append(prComments, [id |-> Len(prComments) + 1, body |-> body])
                /\ written' = [written EXCEPT !.comment = "created"]
    /\ rpc' = "reviewing"
    /\ UNCHANGED <<mode, answer, apiCalls, existing, failure, runs>>

\* index.ts lines 282-288: the request fails, and run() reports the error.
WriteCommentFails ==
    /\ rpc = "writing"
    /\ rpc' = "failed"
    /\ failure' = "Resource not accessible by integration"
    /\ UNCHANGED <<mode, answer, apiCalls, existing, prComments, written, runs>>

\* index.ts line 155
AnyCritical(comparisons) ==
    \E i \in 1..Len(comparisons) : comparisons[i].hasCriticalIssue
\* index.ts lines 156-160
AnyRegression(comparisons) ==
    \E i \in 1..Len(comparisons) :
        \E j \in 1..Len(comparisons[i].factorInsights) :
            comparisons[i].factorInsights[j].changeDirection \in {"worse", "mixed"}

\* index.ts lines 154-161 and 291-319: the review is posted (accepted tells
\* whether the requests succeed; a failure is logged as a warning only).
PostReviewVerdict(accepted) ==
    /\ rpc = "reviewing"
    /\ LET hasCriticalIssues ==
               AnyCritical(ComparisonsOf(answer)) \/ AnyRegression(ComparisonsOf(answer))
           event == IF hasCriticalIssues THEN "REQUEST_CHANGES" ELSE "COMMENT"
       IN  written' = [written EXCEPT !.review = IF accepted THEN event ELSE "failed"]
    /\ rpc' = "summarising"
    /\ UNCHANGED <<mode, answer, apiCalls, existing, prComments, failure, runs>>

\* index.ts lines 163-174 and 219-228: the job summary is written.
WriteSummary ==
    /\ rpc = "summarising"
    /\ written' = [written EXCEPT !.summary = TRUE]
    /\ rpc' = "done"
    /\ UNCHANGED <<mode, answer, apiCalls, existing, prComments, failure, runs>>

InitRun == IdleClient /\ IdleVerdict /\ IdleBlock /\ IdleComment /\ RunInit /\ IdleJobs

NextRun ==
    \/ (\E m \in {"pr", "on-demand"}, pre \in Preconditions : StartRun(m, pre))
            /\ UNCHANGED <<clientVars, verdictVars, blockVars, commentVars, jobVars>>
    \/ (\E a \in RunAnswers : ApiReturns(a))
            /\ UNCHANGED <<clientVars, verdictVars, blockVars, commentVars, jobVars>>
    \/ (\E message \in RunErrors : ApiThrows(message))
            /\ UNCHANGED <<clientVars, verdictVars, blockVars, commentVars, jobVars>>
    \/ ListComments /\ UNCHANGED <<clientVars, verdictVars, blockVars, commentVars, jobVars>>
    \/ WriteComment /\ UNCHANGED <<clientVars, verdictVars, blockVars, commentVars, jobVars>>
    \/ WriteCommentFails /\ UNCHANGED <<clientVars, verdictVars, blockVars, commentVars, jobVars>>
    \/ (\E accepted \in BOOLEAN : PostReviewVerdict(accepted))
            /\ UNCHANGED <<clientVars, verdictVars, blockVars, commentVars, jobVars>>
    \/ WriteSummary /\ UNCHANGED <<clientVars, verdictVars, blockVars, commentVars, jobVars>>

SpecRun == InitRun /\ [][NextRun]_vars

----------------------------------------------------------------------------
(* The section of one file: formatFileSection applied to one comparison    *)
(* whose synthesis insights and factor results are built factor by factor. *)
(* Both arrays come from the evaluator's JSON answer and are not checked    *)
(* against each other by the program.                                       *)

MaxSectionFactors == 2
SectionScores == {4, 5, 7, 8}
\* plain:        a factor result with one finding, nothing in the insight
\* embedded:     the insight carries a finding and changeDetails, the result a finding
\* orphan:       the insight carries a finding, no factor result has its factorId
\* emptydetails: changeDetails is [], the result has no finding
\* nofindings:   no finding anywhere and no changeDetails
\* rescored:     the result's score is in another band than the insight's
\* SectionKinds: the combinations of changeDirection and shape that are enumerated.
SectionKinds ==
    {<<"undefined", "plain">>, <<"improved", "plain">>, <<"improved", "embedded">>,
     <<"undefined", "orphan">>, <<"improved", "emptydetails">>,
     <<"undefined", "nofindings">>, <<"undefined", "rescored">>}

SynthesisFinding(n) ==
    Finding(1, "Synthesis finding on " \o FactorIds[n], FALSE, 0, 0, "", "",
            "Reconsider " \o FactorIds[n], "")
EvaluatorFinding(n) ==
    Finding(1, "Evaluator finding on " \o FactorIds[n], FALSE, 0, 0, "", "",
            "Rework " \o FactorIds[n], "")
OtherBand(score) == IF score <= 7 THEN 8 ELSE 3

SectionInsight(n, score, direction, shape) ==
    FullInsight(FactorIds[n], FactorNames[n], score, direction,
                IF direction = "undefined" THEN "" ELSE "Change rationale",
                shape \in {"embedded", "emptydetails"},
                IF shape = "embedded" THEN <<"Added a line on " \o FactorIds[n]>> ELSE <<>>,
                IF shape \in {"embedded", "orphan"} THEN <<SynthesisFinding(n)>> ELSE <<>>)

SectionResult(n, score, shape) ==
    FactorResult(FactorIds[n], FactorNames[n],
                 IF shape = "rescored" THEN OtherBand(score) ELSE score,
                 "Rationale",
                 IF shape \in {"plain", "embedded", "rescored"}
                 THEN <<EvaluatorFinding(n)>> ELSE <<>>)

SectionInit ==
    /\ comps = <<Comparison(HeaderFile, "Agent prompt", <<>>, <<>>)>>
    /\ comment = ""
    /\ cpc = "section-input"

\* The evaluator's answer holds one more factor.
AddSectionFactor(score, direction, shape) ==
    /\ cpc = "section-input"
    /\ Len(comps[1].factorInsights) < MaxSectionFactors
    /\ LET n == Len(comps[1].factorInsights) + 1
       IN  comps' = <<Comparison(comps[1].promptFile, comps[1].promptDescription,
                        Append(comps[1].factorInsights,
                               SectionInsight(n, score, direction, shape)),
                        IF shape = "orphan" THEN comps[1].factorResults
                        ELSE Append(comps[1].factorResults,
                                    SectionResult(n, score, shape)))>>
    /\ UNCHANGED <<comment, cpc>>

\* Line 233: formatFileSection(comp)
CallFormatFileSection ==
    /\ cpc = "section-input"
    /\ comment' = formatFileSection(comps[1])
    /\ cpc' = "section"
    /\ UNCHANGED comps

InitSection == IdleClient /\ IdleVerdict /\ IdleBlock /\ SectionInit /\ IdleRun /\ IdleJobs

NextSection ==
    \/ (\E score \in SectionScores, kind \in SectionKinds :
            AddSectionFactor(score, kind[1], kind[2]))
            /\ UNCHANGED <<clientVars, verdictVars, blockVars, runVars, jobVars>>
    \/ CallFormatFileSection /\ UNCHANGED <<clientVars, verdictVars, blockVars, runVars, jobVars>>

SpecSection == InitSection /\ [][NextSection]_vars

----------------------------------------------------------------------------
(* Overlapping runs: several PR-mode runs of the action on the same pull   *)
(* request (one per pushed commit), each a process of its own, whose        *)
(* requests to the comments of the pull request interleave freely.          *)

MaxJobs == 2

\* The results the answers of the overlapping runs hold.
JobResults == {<<RunComparison(8, "improved", FALSE)>>, <<RunComparison(3, "worse", TRUE)>>}

\* One run: its position, the id of the comment it found (0 if none) and the
\* body it is about to write.
Job(position, found, body) == [pc |-> position, existing |-> found, body |-> body]

OverlapInit ==
    /\ jobs = [r \in 1..MaxJobs |-> Job("ready", 0, "")]
    /\ prComments \in {<<>>, <<HumanComment>>,
                       <<HumanComment, [id |-> 2, body |-> formatPRComment(<<>>)]>>}
    /\ rpc = "idle"
    /\ mode = ""
    /\ answer = NoAnswer
    /\ apiCalls = 0
    /\ existing = 0
    /\ written = NothingWritten
    /\ failure = ""
    /\ runs = 0

\* index.ts lines 117-148: the run r has its answer and formats the comment.
JobFormatsComment(r, results) ==
    /\ jobs[r].pc = "ready"
    /\ jobs' = [jobs EXCEPT ![r] = Job("listing", 0, formatPRComment(results))]
    /\ UNCHANGED prComments

\* index.ts lines 274-280: the run r lists the comments and searches them.
JobListComments(r) ==
    /\ jobs[r].pc = "listing"
    /\ jobs' = [jobs EXCEPT ![r] = Job("writing", FindExisting(prComments), jobs[r].body)]
    /\ UNCHANGED prComments

\* index.ts lines 282-288: the run r updates the comment it found or creates one.
JobWriteComment(r) ==
    /\ jobs[r].pc = "writing"
    /\ IF jobs[r].existing # 0
       THEN prComments' = [i \in 1..Len(prComments) |->
                              IF prComments[i].id = jobs[r].existing
                              THEN [id |-> jobs[r].existing, body |-> jobs[r].body]
                              ELSE prComments[i]]
       ELSE prComments' = Append(prComments,
                                 [id |-> Len(prComments) + 1, body |-> jobs[r].body])
    /\ jobs' = [jobs EXCEPT ![r] = Job("done", jobs[r].existing, jobs[r].body)]

InitOverlap == IdleClient /\ IdleVerdict /\ IdleBlock /\ IdleComment /\ OverlapInit

NextOverlap ==
    \/ (\E r \in 1..MaxJobs, results \in JobResults : JobFormatsComment(r, results))
            /\ UNCHANGED <<clientVars, verdictVars, blockVars, commentVars, rpc, mode, answer, apiCalls, existing, written, failure, runs>>
    \/ (\E r \in 1..MaxJobs : JobListComments(r))
            /\ UNCHANGED <<clientVars, verdictVars, blockVars, commentVars, rpc, mode, answer, apiCalls, existing, written, failure, runs>>
    \/ (\E r \in 1..MaxJobs : JobWriteComment(r))
            /\ UNCHANGED <<clientVars, verdictVars, blockVars, commentVars, rpc, mode, answer, apiCalls, existing, written, failure, runs>>

SpecOverlap == InitOverlap /\ [][NextOverlap]_vars

----------------------------------------------------------------------------
(* Claims about callReviewAPI, checked under Spec.                         *)

IsResponse(o) == o.type = "response"
Is4xx(o) == IsResponse(o) /\ o.response.status >= 400 /\ o.response.status < 500
Is5xx(o) == IsResponse(o) /\ o.response.status >= 500
IsBelow400(o) == IsResponse(o) /\ o.response.status < 400
Settled == pc \in {"returned", "thrown"}
AllFiveHundred ==
    /\ Len(outcomes) >= 1
    /\ \A i \in 1..Len(outcomes) : IsResponse(outcomes[i]) /\ outcomes[i].response.status = 500

\* C1 as stated: three HTTP 500 responses give exactly 3 POSTs, the backoff
\* delays 5000, 10000 and 20000 ms, and the error "API returned 500".
C1_Original ==
    (pc = "thrown" /\ AllFiveHundred) =>
        /\ posts = 3
        /\ sleeps = <<5000, 10000, 20000>>
        /\ thrown.message = "API returned 500"

\* C1 (amended): when every attempt receives HTTP 500 the call never returns and
\* throws only after exactly 3 POSTs; the two sleeps between the three attempts
\* last 5000 and 10000 ms (the third delay, 20000 ms, is never slept) and the
\* error thrown has the message "API returned 500".
C1_ThreeAttemptsTwoDelays ==
    AllFiveHundred =>
        /\ pc # "returned"
        /\ pc = "thrown" =>
              /\ Len(outcomes) = 3
              /\ posts = 3
              /\ sleeps = <<5000, 10000>>
              /\ thrown.message = "API returned 500"

C1_Witness == pc = "thrown" /\ AllFiveHundred /\ Len(outcomes) = 3 /\ Len(sleeps) = 2

\* C2: an attempt that receives a 4xx response is the last one: no POST and no
\* backoff sleep follows it, whatever the response body holds.
C2_NoRetryOn4xx ==
    \A i \in 1..Len(outcomes) :
        Is4xx(outcomes[i]) =>
            /\ i = Len(outcomes)
            /\ posts = i
            /\ Len(sleeps) = i - 1
            /\ pc \in {"json4xx", "thrown"}

\* C3: when the call throws on an attempt that received a 4xx response, the
\* error's message is the body's message field if the body is JSON with a
\* non-empty message, and "API error: <status>" otherwise.
C3_Message4xx ==
    (pc = "thrown" /\ Len(outcomes) >= 1 /\ Is4xx(outcomes[Len(outcomes)])) =>
        LET r == outcomes[Len(outcomes)].response
        IN  thrown.message =
                IF r.body.kind = "object" /\ r.body.hasMessage /\ r.body.message # ""
                THEN r.body.message
                ELSE "API error: " \o ToString(r.status)

\* The classification C4 names.
NetworkLevel(e) ==
    \/ e.name = "AbortError"
    \/ e.kind = "TypeError" /\ Includes(e.message, "fetch")
    \/ \E w \in {"ECONNRESET", "ETIMEDOUT", "socket hang up", "network"} : Includes(e.message, w)

\* The exception raised during attempt i, once the attempt has been handled
\* (NoError if it raised none).
Raised(i) ==
    LET o == outcomes[i]
    IN  IF ~IsResponse(o) THEN o.error
        ELSE IF i = Len(outcomes) /\ pc \in {"json4xx", "json2xx"} THEN NoError
        ELSE IF Is4xx(o) THEN Error4xx(o.response)
        ELSE IF Is5xx(o) THEN (IF i = MAX_RETRIES THEN Error5xx(o.response) ELSE NoError)
        ELSE JsonResult(o.response.body).error

C5_Original ==
    \A i \in 1..Len(outcomes) :
        IsBelow400(outcomes[i]) =>
            /\ i = Len(outcomes)
            /\ pc \in {"json2xx", "returned"}
            /\ thrown = NoError

\* C5 (amended): the first attempt whose response status is below 400 and whose
\* body is read and parsed as JSON ends the call with that parsed body, also
\* after earlier attempts failed; no attempt, sleep, warning or error follows.
C5_SuccessEndsCall ==
    \A i \in 1..Len(outcomes) :
        (IsBelow400(outcomes[i]) /\ JsonResult(outcomes[i].response.body).ok) =>
            /\ i = Len(outcomes)
            /\ pc \in {"json2xx", "returned"}
            /\ pc = "returned" => returned = outcomes[i].response.body
            /\ thrown = NoError
            /\ posts = i
            /\ Len(sleeps) = i - 1
            /\ Len(warnings) = i - 1

C5_Witness ==
    /\ pc = "returned"
    /\ Len(outcomes) = 3
    /\ Is5xx(outcomes[1])
    /\ ~IsResponse(outcomes[2])
    /\ returned = outcomes[3].response.body

\* A retryable failure in the sense of C6, and the error recorded for it.
RetryableFailure(o) == Is5xx(o) \/ (~IsResponse(o) /\ NetworkLevel(o.error))
RecordedError(o) == IF IsResponse(o) THEN Error5xx(o.response) ELSE o.error

\* C6: when all three attempts fail with 5xx responses or network-level
\* exceptions, the error thrown is the one recorded for the third attempt; the
\* loop is never left by its test, so "All retry attempts exhausted" is never
\* thrown.
C6_LastErrorThrown ==
    /\ pc = "loop" => attempt < MAX_RETRIES
    /\ thrown.message # "All retry attempts exhausted"
    /\ (pc = "thrown" /\ Len(outcomes) = MAX_RETRIES
            /\ \A i \in 1..MAX_RETRIES : RetryableFailure(outcomes[i])) =>
          thrown = RecordedError(outcomes[MAX_RETRIES])

C6_Witness ==
    /\ pc = "thrown"
    /\ Len(outcomes) = MAX_RETRIES
    /\ \A i \in 1..MAX_RETRIES : RetryableFailure(outcomes[i])
    /\ Is5xx(outcomes[1]) /\ ~IsResponse(outcomes[2]) /\ Is5xx(outcomes[3])
    /\ RecordedError(outcomes[3]) # RecordedError(outcomes[1])

----------------------------------------------------------------------------
(* Claims about formatPRVerdict, checked under SpecVerdict.                *)

HasDirection == \E i \in 1..Len(insights) : insights[i].changeDirection # "undefined"
HasRegression == \E i \in 1..Len(insights) : insights[i].changeDirection \in {"worse", "mixed"}
RejectPrefix == "**Review verdict:** " \o EMOJI_REJECT \o " REJECT " \o DASH \o " "
ApprovePrefix == "**Review verdict:** " \o EMOJI_APPROVE \o " APPROVE " \o DASH
                     \o " Changes improve or maintain quality."
\* Number of places at which sub occurs in s.
Occurrences(s, sub) ==
    Cardinality({i \in 1..(Len(s) - Len(sub) + 1) : SubSeq(s, i, i + Len(sub) - 1) = sub})

C8_RemainClause ==
    (vpc = "done" /\ HasDirection /\ ~HasRegression) =>
        LET N == Cardinality({i \in 1..Len(insights) : insights[i].score <= 4})
            M == Cardinality({i \in 1..Len(insights) :
                                 insights[i].score >= 5 /\ insights[i].score <= 7})
            gaps == IF N = 0 THEN <<>>
                    ELSE <<ToString(N) \o (IF N = 1 THEN " critical gap" ELSE " critical gaps")>>
            opps == IF M = 0 THEN <<>>
                    ELSE <<ToString(M) \o (IF M = 1 THEN " improvement opportunity"
                                                    ELSE " improvement opportunities")>>
        IN  verdict = ApprovePrefix
                        \o (IF N > 0 \/ M > 0
                            THEN " " \o Join(gaps \o opps, " and ") \o " remain for future work."
                            ELSE "")
                        \o "\n\n"

----------------------------------------------------------------------------
(* Claims about the rendered code blocks, checked under SpecBlock.         *)

\* The content embedded in the rendered block.
Embedded == IF bpc = "snippet" THEN cleanCodeSnippet(code) ELSE code
\* The longest backquote run of s (0 if it has none).
LongestRun(s) ==
    LET lens == {n \in 1..Len(s) : \E i \in 1..(Len(s) - n + 1) : SubSeq(s, i, i + n - 1) = Repeat(BT, n)}
    IN  IF lens = {} THEN 0 ELSE SetMax(lens)
\* The length of the run of backquotes the block opens with.
OpeningFenceLen == SetMax({n \in 0..Len(block) : SubSeq(block, 1, n) = Repeat(BT, n)})

\* C10: a rendered code block opens with a fence of max(3, k + 1) backquotes, k
\* being the longest backquote run of the embedded content; the content holds no
\* run as long as the fence, and the first occurrence of a run of the fence's
\* length after the opening fence is the closing fence.
C10_FenceLength ==
    (bpc \in {"snippet", "rewrite"} /\ block # "") =>
        LET k == LongestRun(Embedded)
            n == OpeningFenceLen
            fence == Repeat(BT, n)
            later == {i \in (n + 1)..(Len(block) - n + 1) : SubSeq(block, i, i + n - 1) = fence}
        IN  /\ n = (IF k + 1 > 3 THEN k + 1 ELSE 3)
            /\ ~Includes(Embedded, fence)
            /\ block = fence \o "\n" \o Embedded \o "\n" \o fence \o "\n\n"
            /\ later # {}
            /\ SetMin(later) = n + 1 + Len(Embedded) + 2

C10_Witness ==
    /\ bpc = "snippet"
    /\ Includes(code, "# A")
    /\ ~Includes(Embedded, "# A")
    /\ LongestRun(Embedded) = 3
    /\ OpeningFenceLen = 4

C10_WitnessRewrite ==
    /\ bpc = "rewrite"
    /\ LongestRun(code) = 4
    /\ OpeningFenceLen = 5

----------------------------------------------------------------------------
(* Claims about formatPRComment, checked under SpecComment.                *)

\* C9: formatPRComment returns at most 65000 characters; when the untruncated
\* document is longer than 65000 characters the result ends with the "Comment
\* truncated" notice, and otherwise the document is returned unchanged, without
\* the notice.
C9_BoundedComment ==
    cpc = "done" =>
        /\ Len(comment) <= 65000
        /\ IF Len(CommentDocument(comps)) > 65000
           THEN EndsWith(comment, TRUNCATION_NOTICE)
           ELSE comment = CommentDocument(comps) /\ ~EndsWith(comment, TRUNCATION_NOTICE)

C9_Witness ==
    /\ cpc = "done"
    /\ Len(comps) = 1
    /\ Len(CommentDocument(comps)) = 65001
    /\ EndsWith(comment, TRUNCATION_NOTICE)

C9_WitnessAtLimit ==
    /\ cpc = "done"
    /\ Len(comment) = 65000
    /\ comment = CommentDocument(comps)

----------------------------------------------------------------------------
(* Claims about cleanCodeSnippet, checked under SpecBlock.                 *)

\* The lines of s that hold a non-whitespace character.
NonBlankLines(s) ==
    LET NonBlank(line) == Trim(line) # "" IN SelectSeq(SplitLines(s), NonBlank)
\* Every non-blank line of s is one the loop of cleanCodeSnippet drops.
AllHeaders(s) ==
    \A i \in 1..Len(NonBlankLines(s)) : isSectionHeader(Trim(NonBlankLines(s)[i]))

\* C11: cleanCodeSnippet is idempotent: cleaning the cleaned snippet again
\* gives the cleaned snippet, also when every line is a header and when the
\* kept lines are indented.
C11_Idempotent ==
    bpc = "snippet" =>
        cleanCodeSnippet(cleanCodeSnippet(code)) = cleanCodeSnippet(code)

C11_Witness ==
    /\ bpc = "snippet"
    /\ code = "# A\n a"
    /\ cleanCodeSnippet(code) = "a"

C11_WitnessIndented ==
    /\ bpc = "snippet"
    /\ code = "a\n a\n"
    /\ cleanCodeSnippet(code) = "a\n a"

C11_WitnessAllHeaders ==
    /\ bpc = "snippet"
    /\ code = "# A\n# A"
    /\ cleanCodeSnippet(code) = code

\* C12: for a snippet holding a non-whitespace character cleanCodeSnippet never
\* returns an empty or whitespace-only string, and when every non-blank line
\* is a header it returns the snippet unchanged.
C12_NeverEmpty ==
    (bpc = "snippet" /\ Trim(code) # "") =>
        /\ Trim(cleanCodeSnippet(code)) # ""
        /\ AllHeaders(code) => cleanCodeSnippet(code) = code
        /\ block # ""

C12_Witness ==
    /\ bpc = "snippet"
    /\ code = " # A\n\n"
    /\ AllHeaders(code)
    /\ Includes(block, code)

----------------------------------------------------------------------------
(* Claims about the text sanitizer, checked under SpecBlock.               *)

HeaderPrefix == "## " \o BT \o HeaderFile \o BT \o "\n\n**Prompt overview:** "
\* The description as it stands in the rendered header.
HeaderDescription == SubSeq(block, Len(HeaderPrefix) + 1, Len(block) - 2)

\* C13: the text sanitizeInlineText returns has no run of three or more
\* backquotes and is the input itself when the input has none; the description
\* formatPromptHeader puts in the file header has no such run and no newline.
C13_NoFenceInText ==
    /\ bpc = "inline" =>
           /\ ~Includes(block, Repeat(BT, 3))
           /\ ~Includes(code, Repeat(BT, 3)) => block = code
    /\ bpc = "header" =>
           /\ StartsWith(block, HeaderPrefix)
           /\ EndsWith(block, "\n\n")
           /\ ~Includes(HeaderDescription, Repeat(BT, 3))
           /\ ~Includes(HeaderDescription, "\n")

C13_Witness ==
    /\ bpc = "inline"
    /\ code = "a" \o Repeat(BT, 5) \o "a"
    /\ block = "a" \o Repeat("\\" \o BT, 5) \o "a"

C13_WitnessHeader ==
    /\ bpc = "header"
    /\ code = Repeat(BT, 4) \o "\n" \o BT \o "a"
    /\ HeaderDescription = BT \o "a"

----------------------------------------------------------------------------
(* Claims about the score bands, checked under SpecTable.                  *)

\* The emoji that goes with a label of SCORE_LABELS.
EmojiOfLabel(label) ==
    CASE label = "Critical" -> EMOJI_RED
      [] label = "Needs Work" -> EMOJI_YELLOW
      [] label = "Good" -> EMOJI_GREEN
\* The start of the table row of factor i.
RowStart(i, emoji) == "\n| **" \o FactorNames[i] \o "** | " \o emoji \o " | "

----------------------------------------------------------------------------
(* Claims about the run, checked under SpecRun.                            *)

\* C15: after any sequence of PR-mode runs, one after another, at most one
\* comment of the pull request carries the bot marker: a run creates a comment
\* only when no comment contains the marker, and otherwise updates the comment
\* it found.
C15_OneBotComment ==
    /\ [](Cardinality(MarkerComments(prComments)) <= 1)
    /\ [][rpc = "writing" /\ rpc' = "reviewing" =>
              IF MarkerComments(prComments) = {}
              THEN /\ Len(prComments') = Len(prComments) + 1
                   /\ written'.comment = "created"
              ELSE /\ Len(prComments') = Len(prComments)
                   /\ written'.comment = "updated"
                   /\ \A i \in 1..Len(prComments) :
                          IF i \in MarkerComments(prComments)
                          THEN /\ prComments[i].id = existing
                               /\ prComments'[i].id = existing
                               /\ prComments'[i].body = formatPRComment(ComparisonsOf(answer))
                          ELSE prComments'[i] = prComments[i]]_vars

C15_Witness ==
    /\ runs = 2
    /\ mode = "pr"
    /\ written.comment = "updated"
    /\ Len(prComments) = 2
    /\ MarkerComments(prComments) = {2}

\* A factor of a reviewed file scores Critical (1 to 4).
AnyCriticalScore(comparisons) ==
    \E i \in 1..Len(comparisons) :
        \/ \E j \in 1..Len(comparisons[i].factorResults) :
               SCORE_LABELS[comparisons[i].factorResults[j].score] = "Critical"
        \/ \E j \in 1..Len(comparisons[i].factorInsights) :
               SCORE_LABELS[comparisons[i].factorInsights[j].score] = "Critical"

\* C16: in PR mode the review posted on the pull request is REQUEST_CHANGES
\* exactly when a factor scores Critical or an insight is worse or mixed, in
\* any reviewed file.
C16_ReviewEvent ==
    (mode = "pr" /\ written.review \in {"REQUEST_CHANGES", "COMMENT"}) =>
        (written.review = "REQUEST_CHANGES"
            <=> \/ AnyCriticalScore(ComparisonsOf(answer))
                \/ AnyRegression(ComparisonsOf(answer)))

\* The payload of the answer has failed: the status is not "success" or there
\* are no results.
FailedPayload ==
    /\ answer # NoAnswer
    /\ \/ answer.status # "success"
       \/ ~answer.hasResults
       \/ Len(answer.results) = 0

\* C17: when callReviewAPI returns a body whose status is not "success" or that
\* has no results, the run fails with "API returned error: " and the server's
\* message (or "Unknown error"), callReviewAPI is not called again, and no PR
\* comment, review or job summary is written.
C17_FailedPayloadFailsRun ==
    FailedPayload =>
        /\ rpc = "failed"
        /\ failure = "API returned error: "
                         \o (IF answer.hasMessage /\ answer.message # ""
                             THEN answer.message ELSE "Unknown error")
        /\ apiCalls = 1
        /\ written = NothingWritten

\* The part of C17 that holds in both modes: a status other than "success" or
\* an absent results field fails the run, with nothing written.
C17_AbsentResultsFailRun ==
    (answer # NoAnswer /\ (answer.status # "success" \/ ~answer.hasResults)) =>
        /\ rpc = "failed"
        /\ failure = PayloadError(answer)
        /\ apiCalls = 1
        /\ written = NothingWritten

----------------------------------------------------------------------------
(* Claims about the timers, the termination and the log of callReviewAPI,  *)
(* checked under Spec and SpecLive.                                        *)

\* The body of the response in hand does not arrive.
BodyStalled == pc \in {"json4xx", "json2xx"} /\ resp.body.kind = "stalled"

\* C18: if every backoff sleep completes and an armed abort timer fires, every
\* call of callReviewAPI eventually returns or throws, after 1 to 3 POSTs: no
\* attempt stays pending forever, at any stage of handling the response.
C18_Terminates == <>(Settled /\ posts \in 1..MAX_RETRIES)

\* What holds of C18: the call settles unless the body of a response stalls.
C18_TerminatesUnlessBodyStalls == <>((Settled /\ posts \in 1..MAX_RETRIES) \/ BodyStalled)

\* C19: each attempt arms exactly one abort timer, and the timer has been cleared
\* when the attempt ends: no timer is pending during a backoff sleep, at the
\* start of the next attempt or after the call has settled, and the only timer
\* pending during an attempt is that attempt's own.
C19_TimerCleared ==
    /\ pc = "fetching" => timers = {attempt}
    /\ pc \in {"sleeping", "loop", "returned", "thrown"} => timers = {}
    /\ \A n \in timers : n = attempt

C19_Witness ==
    /\ pc = "sleeping"
    /\ Len(outcomes) = 2
    /\ ~IsResponse(outcomes[1]) /\ outcomes[1].error = AbortError
    /\ Is5xx(outcomes[2])
    /\ timers = {}

\* C20: exactly one warning is emitted right before each backoff sleep, naming
\* the attempt and the delay, and nothing else is logged: nothing on a
\* successful attempt, on a 4xx or an unclassified failure, or on the failure of
\* the final attempt.
C20_WarningPerSleep ==
    /\ Len(warnings) = Len(sleeps)
    /\ Len(warnings) <= MAX_RETRIES - 1
    /\ \A i \in 1..Len(warnings) :
          /\ StartsWith(warnings[i], "API call failed (attempt " \o ToString(i) \o "/"
                                         \o ToString(MAX_RETRIES) \o "): ")
          /\ EndsWith(warnings[i], ". Retrying in " \o ToString(sleeps[i] \div 1000) \o "s...")
    /\ \A i \in 1..Len(outcomes) :
          (\/ Is4xx(outcomes[i])
           \/ pc = "returned" /\ i = Len(outcomes)
           \/ ~IsResponse(outcomes[i]) /\ ~NetworkLevel(outcomes[i].error)
           \/ i = MAX_RETRIES) => Len(warnings) < i

\* What holds of C20: one warning per sleep, naming the attempt and the delay,
\* and none for the final attempt, for a returned body or for an exception
\* that is not network-level.
C20_WarningPerRetry ==
    /\ Len(warnings) = Len(sleeps)
    /\ Len(warnings) <= MAX_RETRIES - 1
    /\ \A i \in 1..Len(warnings) :
          /\ StartsWith(warnings[i], "API call failed (attempt " \o ToString(i) \o "/"
                                         \o ToString(MAX_RETRIES) \o "): ")
          /\ EndsWith(warnings[i], ". Retrying in " \o ToString(sleeps[i] \div 1000) \o "s...")
          /\ Raised(i) # NoError => NetworkLevel(Raised(i))
    /\ pc = "returned" => Len(warnings) = posts - 1

\* C21: one call of callReviewAPI sleeps at most twice, the sleep after attempt
\* index i lasts BACKOFF_DELAYS_MS[i] whether a 5xx response or a network-level
\* exception preceded it, and no sleep follows the third attempt.
C21_BackoffSchedule ==
    /\ Len(sleeps) <= 2
    /\ \A i \in 1..Len(sleeps) :
          /\ sleeps[i] = BACKOFF_DELAYS_MS[i]
          /\ i <= Len(outcomes)
          /\ i < 3
    /\ Len(sleeps) <= posts
    /\ pc = "sleeping" => Len(sleeps) = posts
    /\ posts <= 3
    /\ posts = 3 => Len(sleeps) = 2 /\ pc # "sleeping"

C21_Witness ==
    /\ pc = "thrown"
    /\ posts = 3
    /\ Is5xx(outcomes[1])
    /\ ~IsResponse(outcomes[2]) /\ NetworkLevel(outcomes[2].error)
    /\ ~IsResponse(outcomes[3]) /\ NetworkLevel(outcomes[3].error)
    /\ sleeps = <<5000, 10000>>

\* The lines of s that are indented: they differ from their trimmed form and
\* are not blank.
IndentedLines(s) ==
    LET Indented(line) == line # Trim(line) /\ Trim(line) # ""
    IN  SelectSeq(SplitLines(s), Indented)

\* C22: cleanCodeSnippet keeps every indented line of the snippet, also when the
\* line's trimmed text matches a header pattern: the text of each indented line
\* is a line of the result.
C22_IndentedLinesKept ==
    bpc = "snippet" =>
        \A i \in 1..Len(IndentedLines(code)) :
            \E j \in 1..Len(SplitLines(cleanCodeSnippet(code))) :
                Trim(SplitLines(cleanCodeSnippet(code))[j]) = Trim(IndentedLines(code)[i])

\* The lines of the rendered table: its header and its factor rows.
TableHeaderLines ==
    LET IsHeader(line) == StartsWith(line, "| Factor |") IN SelectSeq(SplitLines(comment), IsHeader)
TableRowLines ==
    LET IsRow(line) == StartsWith(line, "| **") IN SelectSeq(SplitLines(comment), IsRow)
\* The number of cells of a table line (no cell of these tables holds a pipe).
Cells(line) == Occurrences(line, "|") - 1
SomeChangeDirection ==
    \E i \in 1..Len(comps[1].factorInsights) :
        comps[1].factorInsights[i].changeDirection # "undefined"

\* C23: the header of the evaluation table has the Impact column if and only if
\* some insight of the file carries a changeDirection, and every factor row has
\* as many cells as the header: 4 with the Impact column, 3 without.
C23_RowsMatchHeader ==
    cpc = "table" =>
        /\ Len(TableHeaderLines) = 1
        /\ Includes(TableHeaderLines[1], "| Impact of PR |") <=> SomeChangeDirection
        /\ Cells(TableHeaderLines[1]) = (IF SomeChangeDirection THEN 4 ELSE 3)
        /\ Len(TableRowLines) = Len(comps[1].factorResults)
        /\ \A i \in 1..Len(TableRowLines) :
               Cells(TableRowLines[i]) = Cells(TableHeaderLines[1])

----------------------------------------------------------------------------
(* Claims about one file's section, checked under SpecSection.             *)

SectionInsights == comps[1].factorInsights
SectionResults == comps[1].factorResults
Matched(insight) == \E j \in 1..Len(SectionResults) : SectionResults[j].factorId = insight.factorId
Titles(findings) == {findings[k].description : k \in 1..Len(findings)}
EmbeddedTitles == UNION {Titles(SectionInsights[i].findings) : i \in 1..Len(SectionInsights)}

\* C24: no finding embedded in a synthesis insight is rendered in the file's section,
\* whether or not a factorResults entry has the insight's factorId.
C24_EmbeddedNeverRendered ==
    cpc = "section" => \A title \in EmbeddedTitles : ~Includes(comment, title)

\* C24, the matched case: an insight with a factorResults entry of the same factorId
\* never has its own embedded findings rendered.
C24_MatchedUsesResult ==
    cpc = "section" =>
        \A i \in 1..Len(SectionInsights) :
            Matched(SectionInsights[i]) =>
                \A title \in Titles(SectionInsights[i].findings) : ~Includes(comment, title)

MajorHeading == "#### " \o EMOJI_RED \o " Major Gaps\n\n"
OpportunitiesHeading == "#### " \o EMOJI_YELLOW \o " Opportunities to Improve\n\n"
ConsiderationsHeading == "### Considerations\n\n"
BlockStart(factorName) == "<summary><strong>" \o factorName \o "</strong>"
Place(s, sub) == IF Places(s, sub) = {} THEN 0 ELSE SetMin(Places(s, sub))
\* The rendered text from the Major Gaps heading up to the next group.
MajorPart ==
    LET from == Place(comment, MajorHeading)
        to == Place(comment, OpportunitiesHeading)
    IN  IF from = 0 THEN ""
        ELSE SubSeq(comment, from, IF to > 0 THEN to - 1 ELSE Len(comment))
\* The rendered text from the Opportunities to Improve heading to the end.
OpportunitiesPart ==
    LET from == Place(comment, OpportunitiesHeading)
    IN  IF from = 0 THEN "" ELSE SubSeq(comment, from, Len(comment))
ListedMajor(insight) == Includes(MajorPart, BlockStart(insight.factorName))
ListedOpportunity(insight) == Includes(OpportunitiesPart, BlockStart(insight.factorName))

C25_WitnessOmitted ==
    /\ cpc = "section"
    /\ Len(SectionInsights) = 2
    /\ \A i \in 1..2 : SectionInsights[i].score = 8 /\ Len(SectionInsights[i].findings) > 0
    /\ ~Includes(comment, ConsiderationsHeading)

\* The rendered block of a factor, from its summary to its closing tag; "" when
\* the factor has no block.
BlockOf(insight) ==
    LET from == Place(comment, BlockStart(insight.factorName))
    IN  IF from = 0 THEN ""
        ELSE LET rest == SubSeq(comment, from, Len(comment))
             IN  SubSeq(rest, 1, Place(rest, "</details>") - 1)
\* The subsection C26 describes for a factor.
ChangesSubsection(insight) ==
    "<h4>Changes in this PR</h4>\n\n"
        \o (IF insight.hasChangeDetails /\ Len(insight.changeDetails) > 0
            THEN ChangeBullets(insight.changeDetails)
            ELSE "No observed changes in this PR.\n")
        \o "\n---\n\n"

\* C26: when some insight of the file carries a changeDirection, every factor block
\* rendered in Considerations contains the "Changes in this PR" subsection with the
\* changeDetails bullets, or the fixed line when there are none, and a separator.
C26_ChangesInEveryBlock ==
    (cpc = "section" /\ SomeChangeDirection) =>
        \A i \in 1..Len(SectionInsights) :
            LET blockText == BlockOf(SectionInsights[i])
            IN  blockText # "" => Includes(blockText, ChangesSubsection(SectionInsights[i]))

\* C26, per factor: a rendered block contains the subsection if and only if the
\* factor's own insight carries a changeDirection.
C26_ChangesPerFactor ==
    cpc = "section" =>
        \A i \in 1..Len(SectionInsights) :
            LET blockText == BlockOf(SectionInsights[i])
            IN  blockText # "" =>
                    (Includes(blockText, ChangesSubsection(SectionInsights[i]))
                        <=> SectionInsights[i].changeDirection # "undefined")

----------------------------------------------------------------------------
(* Claims about the REJECT rationale, checked under SpecVerdict.           *)

\* The names of the insights with the given changeDirection, in input order.
NamesWithDirection(direction) ==
    LET Is(f) == f.changeDirection = direction
    IN  Join(FactorNamesOf(SelectSeq(insights, Is)), ", ")

\* C27: a REJECT verdict names the worse factors first ("X, Y regressed"), then the
\* mixed factors ("Z had mixed changes (includes regressions)"), joined by "; ",
\* each category only when non-empty, and the note on the remaining changes is
\* appended if and only if some insight has changeDirection improved.
C27_RejectRationale ==
    (vpc = "done" /\ HasRegression) =>
        LET worse == NamesWithDirection("worse")
            mixed == NamesWithDirection("mixed")
            rationale ==
                (IF worse # "" THEN worse \o " regressed" ELSE "")
                    \o (IF worse # "" /\ mixed # "" THEN "; " ELSE "")
                    \o (IF mixed # "" THEN mixed \o " had mixed changes (includes regressions)"
                        ELSE "")
            note == IF \E i \in 1..Len(insights) : insights[i].changeDirection = "improved"
                    THEN " Remaining changes improve quality and would be accepted."
                    ELSE ""
        IN  verdict = RejectPrefix \o rationale \o "." \o note \o "\n\n"

\* A mixed factor listed before a worse one in the input, and an improved one.
C27_Witness ==
    /\ vpc = "done"
    /\ Len(insights) = 3
    /\ insights[1].changeDirection = "mixed"
    /\ insights[2].changeDirection = "worse"
    /\ insights[3].changeDirection = "improved"
    /\ verdict = RejectPrefix \o "Structure & Flow regressed; Scope had mixed changes (includes regressions)."
                     \o " Remaining changes improve quality and would be accepted.\n\n"

\* Two worse factors and a mixed one, none improved: no note.
C27_WitnessNoNote ==
    /\ vpc = "done"
    /\ Len(insights) = 3
    /\ insights[1].changeDirection = "worse"
    /\ insights[2].changeDirection = "worse"
    /\ insights[3].changeDirection = "mixed"
    /\ verdict = RejectPrefix \o "Scope, Structure & Flow regressed; Context & Guidance had mixed changes (includes regressions).\n\n"

----------------------------------------------------------------------------
(* Claims about the bot marker, checked under SpecComment.                 *)

\* C28: the string returned by formatPRComment begins with the bot marker, for
\* every input, truncated or not.
C28_StartsWithMarker ==
    cpc = "done" => StartsWith(comment, BOT_MARKER \o "\n")

\* A two-file document over the limit: the truncated comment still starts with the marker.
C28_Witness ==
    /\ cpc = "done"
    /\ Len(comps) = 2
    /\ Len(CommentDocument(comps)) > PR_COMMENT_MAX_LENGTH
    /\ Len(comment) < Len(CommentDocument(comps))
    /\ StartsWith(comment, BOT_MARKER \o "\n# PROMPT REVIEW")

\* No file at all: the comment is the marker and the heading.
C28_WitnessEmpty ==
    /\ cpc = "done"
    /\ comps = <<>>
    /\ StartsWith(comment, BOT_MARKER \o "\n")

\* Factor i of the section has a table row with the given light.
HasLight(i, emoji) == Includes(comment, RowStart(i, emoji))
\* Factor i has a factorResults entry, and that entry carries the insight's score.
SameScore(i) ==
    \E j \in 1..Len(SectionResults) :
        /\ SectionResults[j].factorId = SectionInsights[i].factorId
        /\ SectionResults[j].score = SectionInsights[i].score

\* C29: within one file section a factor listed under Major Gaps has a red light in
\* its table row, one listed under Opportunities to Improve has a yellow light, and
\* a factor with a green light is never listed in Considerations.
C29_TableAgreesWithConsiderations ==
    cpc = "section" =>
        LET major == MajorPart
            opportunities == OpportunitiesPart
        IN  \A i \in 1..Len(SectionInsights) :
                LET start == BlockStart(SectionInsights[i].factorName)
                    inMajor == Includes(major, start)
                    inOpportunities == Includes(opportunities, start)
                IN  /\ inMajor => HasLight(i, EMOJI_RED)
                    /\ inOpportunities => HasLight(i, EMOJI_YELLOW)
                    /\ HasLight(i, EMOJI_GREEN) => ~inMajor /\ ~inOpportunities

\* C29, restricted: the agreement holds for every factor whose insight and
\* factorResults entry carry the same score.
C29_AgreeWhenScoresAgree ==
    cpc = "section" =>
        LET major == MajorPart
            opportunities == OpportunitiesPart
        IN  \A i \in 1..Len(SectionInsights) :
                LET start == BlockStart(SectionInsights[i].factorName)
                    inMajor == Includes(major, start)
                    inOpportunities == Includes(opportunities, start)
                IN  SameScore(i) =>
                        /\ inMajor => HasLight(i, EMOJI_RED)
                        /\ inOpportunities => HasLight(i, EMOJI_YELLOW)
                        /\ HasLight(i, EMOJI_GREEN) => ~inMajor /\ ~inOpportunities

----------------------------------------------------------------------------
(* Claims about overlapping runs, checked under SpecOverlap.               *)

AllJobsDone == jobs # <<>> /\ \A r \in 1..Len(jobs) : jobs[r].pc = "done"

\* C30: when PR-mode runs for the same pull request overlap, in any interleaving of
\* their list-comments and create-or-update steps, the pull request ends with at
\* most one comment carrying the bot marker.
C30_OneMarkerComment ==
    AllJobsDone => Cardinality(MarkerComments(prComments)) <= 1

\* C30, the runs that found a comment: a run that found a marker comment when it
\* listed the comments adds none.
C30_UpdateAddsNone ==
    [][\A r \in 1..Len(jobs) :
          (jobs[r].pc = "writing" /\ jobs'[r].pc = "done" /\ jobs[r].existing # 0) =>
              Len(prComments') = Len(prComments)]_vars

====
